---------------------------- MODULE Spec2Model ----------------------------
(***************************************************************************)
(* Model of the polymarket-maker decision loop: the coordinator of         *)
(* src/index.ts wiring MarketManager, QuotingAgent, RiskAgent and          *)
(* ExecutionAgent.  Every event handler runs to completion (one action);   *)
(* an async function is cut at its awaits on network I/O.                  *)
(*                                                                         *)
(* Units.  Prices and fair values are integers in thousandths (1.0 = ONE), *)
(* sizes are whole shares, PnL is in thousandths of a dollar.  Numbers     *)
(* that the code computes by division are exact rationals [n, d]; d = 0    *)
(* encodes the IEEE values NaN (n = 0) and +/-Infinity (n = +/-1).         *)
(***************************************************************************)
EXTENDS Integers, Naturals, Sequences, FiniteSets, TLC

(***************************************************************************)
(* Bounds of the model.                                                    *)
(***************************************************************************)
MaxHaltWindows == 1
MaxHaltFills == 1
MaxHaltCycles == 2
MaxHaltPending == 2
MaxReduceWindows == 1
MaxReduceFills == 1
MaxReduceCycles == 2
MaxReducePending == 1
MaxRotateWindows == 2
MaxRotateFills == 1
MaxRotateCycles == 2
MaxRotatePending == 1
MaxRiskFills == 2
MaxSmallFills == 3
MaxManagerWindows == 2
MaxManagerPending == 2
MaxExecCycles == 2
MaxExecFills == 1
MaxExecPending == 1
MaxFeedMessages == 3
MaxProcShutdowns == 2
MaxChannelCloses == 2
MaxChannelSwitches == 2
MaxChannelFills == 1

MaxBookMessages == 3

(***************************************************************************)
(* Program constants (CONFIG defaults and literals, in model units).        *)
(***************************************************************************)
ONE == 1000
Half == 500
ORDER_SIZE == 50
MIN_SPREAD_BPS == 200
MAX_SPREAD_BPS == 1000
INVENTORY_SKEW_FACTOR == 1
MAX_POSITION == 1000
MAX_NOTIONAL == 5000000
MAX_LOSS == 500000
FV_MIN == 10
FV_MAX == 990
VOL_FLOOR == 30
VOL_RANGE == 50
REQUOTE_THRESHOLD_BPS == 50

(***************************************************************************)
(* Input sets.                                                             *)
(***************************************************************************)
Sides == {"BUY", "SELL"}
RiskActions == {"ALLOW", "REDUCE_ONLY", "HALT"}
FillPrices == {10, 990}
FillSizes == {1010}
MatchedAmounts == {20, 50}
Vols == {0, 80}
BtcPrices == {1, 2}
\* BTC prices below, at and above a strike of 2
BtcPricesAround == {1, 2, 3}
FairValues == {FV_MIN, Half, FV_MAX}
Ticks == {1, 10}
\* per-order results of a submission: <<bid accepted, ask accepted>>
OrderResults == BOOLEAN \X BOOLEAN

(***************************************************************************)
(* IEEE-like exact arithmetic.                                             *)
(***************************************************************************)
Abs(x) == IF x < 0 THEN -x ELSE x

Sign(x) == IF x < 0 THEN -1 ELSE IF x > 0 THEN 1 ELSE 0

RECURSIVE GCD(_, _)
GCD(a, b) == IF b = 0 THEN a ELSE GCD(b, a % b)

Norm(n, d) ==
  IF d = 0 THEN [n |-> Sign(n), d |-> 0]
  ELSE LET s == IF d < 0 THEN -1 ELSE 1
           g == GCD(Abs(n), Abs(d))
       IN  [n |-> (s * n) \div g, d |-> (s * d) \div g]

R(i) == [n |-> i, d |-> 1]

NaN == [n |-> 0, d |-> 0]

IsNaN(a) == a.d = 0 /\ a.n = 0

IsInf(a) == a.d = 0 /\ a.n # 0

IsFinite(a) == a.d # 0

RNeg(a) == [n |-> -a.n, d |-> a.d]

RAdd(a, b) ==
  IF IsNaN(a) \/ IsNaN(b) THEN NaN
  ELSE IF IsInf(a) /\ IsInf(b) THEN (IF a.n = b.n THEN a ELSE NaN)
  ELSE IF IsInf(a) THEN a
  ELSE IF IsInf(b) THEN b
  ELSE Norm(a.n * b.d + b.n * a.d, a.d * b.d)

RSub(a, b) == RAdd(a, RNeg(b))

RMul(a, b) ==
  IF IsNaN(a) \/ IsNaN(b) THEN NaN
  ELSE IF IsInf(a) \/ IsInf(b)
       THEN [n |-> Sign(a.n) * Sign(b.n), d |-> 0]
  ELSE Norm(a.n * b.n, a.d * b.d)

\* a / i for a whole number i (the only division of the program)
RDivInt(a, i) ==
  IF IsNaN(a) THEN NaN
  ELSE IF i = 0 THEN [n |-> Sign(a.n), d |-> 0]
  ELSE IF IsInf(a) THEN [n |-> a.n * Sign(i), d |-> 0]
  ELSE Norm(a.n, a.d * i)

\* a < b as JavaScript evaluates it (false when either side is NaN)
RLt(a, b) ==
  IF IsNaN(a) \/ IsNaN(b) THEN FALSE
  ELSE IF a.d = 0 /\ b.d = 0 THEN a.n < b.n
  ELSE a.n * b.d < b.n * a.d

(***************************************************************************)
(* RiskAgent (src/src/agents/risk.ts).                                     *)
(***************************************************************************)
ZeroPosition ==
  [yesShares |-> 0, noShares |-> 0, netDelta |-> 0,
   avgEntryPrice |-> R(0), unrealizedPnl |-> R(0), realizedPnl |-> R(0)]

\* variant of avgEntryAfterBuy that weights both prices equally
avgEntryUnweighted(pos, price, size) ==
  RDivInt(RAdd(pos.avgEntryPrice, R(price)), 2)

\* lines 43-44: avgEntryPrice after a BUY of size at price
avgEntryAfterBuy(pos, price, size) ==
  RDivInt(RAdd(RMul(pos.avgEntryPrice, R(pos.yesShares)), R(price * size)),
          pos.yesShares + size)

\* variant of processFillPosition whose SELL branch skips line 49
processFillPositionSellKeepsShares(pos, side, price, size) ==
  LET p1 ==
        IF side = "BUY"
        THEN [pos EXCEPT !.avgEntryPrice = avgEntryAfterBuy(pos, price, size),
                         !.yesShares = pos.yesShares + size]
        ELSE LET pnl == RMul(RSub(R(price), pos.avgEntryPrice), R(size))
             IN  [pos EXCEPT !.realizedPnl = RAdd(pos.realizedPnl, pnl)]
  IN  [p1 EXCEPT !.netDelta = p1.yesShares]

\* processFill, lines 41-52: the position after the fill
processFillPosition(pos, side, price, size) ==
  LET p1 ==
        IF side = "BUY"
        THEN [pos EXCEPT !.avgEntryPrice = avgEntryAfterBuy(pos, price, size),
                         !.yesShares = pos.yesShares + size]
        ELSE LET pnl == RMul(RSub(R(price), pos.avgEntryPrice), R(size))
             IN  [pos EXCEPT
                    !.realizedPnl = RAdd(pos.realizedPnl, pnl),
                    !.yesShares = pos.yesShares - size]
  IN  [p1 EXCEPT !.netDelta = p1.yesShares]

updateUnrealizedPnl(pos, currentFairValue) ==
  [pos EXCEPT !.unrealizedPnl =
     RMul(RSub(R(currentFairValue), pos.avgEntryPrice), R(pos.yesShares))]

totalPnl(pos) == RAdd(pos.realizedPnl, pos.unrealizedPnl)

\* variant of checkLimits that looks at the realized PnL only
checkLimitsRealized(pos, maxLoss) == RLt(pos.realizedPnl, R(-maxLoss))

\* checkLimits: TRUE when the limit check sets halted and emits 'halt'
checkLimits(pos, maxLoss) == RLt(totalPnl(pos), R(-maxLoss))

\* quote.fairValue || 0.5
FairValueOrHalf(fv) == IF fv = 0 THEN Half ELSE fv

\* variant of notional that ignores the quote's fair value
notionalAtHalf(pos, quote) == Abs(pos.netDelta) * Half

\* |netDelta| * (quote.fairValue || 0.5), in thousandths of a dollar
notional(pos, quote) == Abs(pos.netDelta) * FairValueOrHalf(quote.fairValue)

\* variant of checkQuoteWith without the halted test of line 76
checkQuoteWithoutSticky(pos, isHalted, quote, maxLoss, maxNotional, maxPosition) ==
  IF RLt(totalPnl(pos), R(-maxLoss))
  THEN [action |-> "HALT", halted |-> TRUE, emitHalt |-> TRUE]
  ELSE IF notional(pos, quote) > maxNotional
  THEN [action |-> "REDUCE_ONLY", halted |-> FALSE, emitHalt |-> FALSE]
  ELSE IF Abs(pos.netDelta) > maxPosition
  THEN [action |-> "REDUCE_ONLY", halted |-> FALSE, emitHalt |-> FALSE]
  ELSE [action |-> "ALLOW", halted |-> FALSE, emitHalt |-> FALSE]

\* checkQuote under explicit limits: the decision, the halted flag afterwards
\* and whether a 'halt' signal is emitted
checkQuoteWith(pos, isHalted, quote, maxLoss, maxNotional, maxPosition) ==
  IF isHalted
  THEN [action |-> "HALT", halted |-> TRUE, emitHalt |-> FALSE]
  ELSE IF RLt(totalPnl(pos), R(-maxLoss))
  THEN [action |-> "HALT", halted |-> TRUE, emitHalt |-> TRUE]
  ELSE IF notional(pos, quote) > maxNotional
  THEN [action |-> "REDUCE_ONLY", halted |-> FALSE, emitHalt |-> FALSE]
  ELSE IF Abs(pos.netDelta) > maxPosition
  THEN [action |-> "REDUCE_ONLY", halted |-> FALSE, emitHalt |-> FALSE]
  ELSE [action |-> "ALLOW", halted |-> FALSE, emitHalt |-> FALSE]

checkQuote(pos, isHalted, quote, cfg) ==
  checkQuoteWith(pos, isHalted, quote, cfg.MAX_LOSS, cfg.MAX_NOTIONAL,
                 cfg.MAX_POSITION)

\* variant of haltedAfterLimits that forgets an earlier halt
haltedFromBreach(isHalted, breach) == breach

\* halted after checkLimits (lines 141-147) given whether the loss limit is
\* breached
haltedAfterLimits(isHalted, breach) == isHalted \/ breach

\* variant of riskResetForNewMarket without line 136
riskResetKeepsHalt(pos, isHalted) ==
  [position |-> ZeroPosition, halted |-> isHalted]

\* resetForNewMarket, lines 127-136
riskResetForNewMarket(pos, isHalted) ==
  [position |-> ZeroPosition, halted |-> FALSE]

\* variant of applyRiskAdjustment that tests netDelta < 0 at line 113
applyRiskAdjustmentShortTest(pos, quote, action) ==
  IF action = "HALT" THEN [quote EXCEPT !.bidSize = 0, !.askSize = 0]
  ELSE IF action = "REDUCE_ONLY"
  THEN IF pos.netDelta < 0 THEN [quote EXCEPT !.bidSize = 0]
       ELSE [quote EXCEPT !.askSize = 0]
  ELSE quote

\* applyRiskAdjustment, lines 107-120
applyRiskAdjustment(pos, quote, action) ==
  IF action = "HALT" THEN [quote EXCEPT !.bidSize = 0, !.askSize = 0]
  ELSE IF action = "REDUCE_ONLY"
  THEN IF pos.netDelta > 0 THEN [quote EXCEPT !.bidSize = 0]
       ELSE [quote EXCEPT !.askSize = 0]
  ELSE quote

(***************************************************************************)
(* QuotingAgent (src/src/agents/quoting.ts).                               *)
(***************************************************************************)
NoQuote == [bidPrice |-> 0, askPrice |-> 0, bidSize |-> 0, askSize |-> 0,
            fairValue |-> 0]

Max(a, b) == IF a > b THEN a ELSE b

Min(a, b) == IF a < b THEN a ELSE b

\* variant of roundToTick that keeps the raw price
roundToTickRaw(price, tickSize) == price

\* Math.round(price / tickSize) * tickSize (Math.round rounds halves up)
roundToTick(price, tickSize) ==
  ((2 * price + tickSize) \div (2 * tickSize)) * tickSize

clampPrice(price, tickSize) ==
  Max(tickSize, Min(ONE - tickSize, roundToTick(price, tickSize)))

\* computeSpread in basis points; vol is the annualized volatility in percent
computeSpreadBps(vol) ==
  LET over == Min(VOL_RANGE, Max(0, vol - VOL_FLOOR))
  IN  MIN_SPREAD_BPS + (over * (MAX_SPREAD_BPS - MIN_SPREAD_BPS)) \div VOL_RANGE

\* half of computeSpread(), in thousandths (1 bp = 1/10 of a thousandth)
halfSpread(vol) == computeSpreadBps(vol) \div 20

\* computeQuote, lines 70-92: NoQuote stands for null
computeQuote(fairValue, vol, tick, netDelta) ==
  IF fairValue <= 0 \/ fairValue >= ONE THEN NoQuote
  ELSE LET inventorySkew == -netDelta * INVENTORY_SKEW_FACTOR
           rawBid == fairValue - halfSpread(vol) + inventorySkew
           rawAsk == fairValue + halfSpread(vol) + inventorySkew
           bid == clampPrice(rawBid, tick)
           ask == clampPrice(rawAsk, tick)
       IN  IF bid >= ask THEN NoQuote
           ELSE [bidPrice |-> bid, askPrice |-> ask, bidSize |-> ORDER_SIZE,
                 askSize |-> ORDER_SIZE, fairValue |-> fairValue]

\* variant of movedBps with a strict comparison
movedBpsStrictly(new, last) ==
  Abs(new - last) * 10000 > REQUOTE_THRESHOLD_BPS * last

\* |new - last| / last * 10000 >= REQUOTE_THRESHOLD_BPS, for last > 0
movedBps(new, last) ==
  Abs(new - last) * 10000 >= REQUOTE_THRESHOLD_BPS * last

\* shouldRequote, lines 116-125; last is this.lastQuote, NoQuote for null
shouldRequote(last, newQuote) ==
  IF last = NoQuote THEN TRUE
  ELSE \/ movedBps(newQuote.bidPrice, last.bidPrice)
       \/ movedBps(newQuote.askPrice, last.askPrice)

\* the quote of the last new_quote emission after computeQuote has returned
\* newQuote (lines 94-99)
publishedAfter(pub, last, newQuote) ==
  IF shouldRequote(last, newQuote) THEN newQuote ELSE pub

(***************************************************************************)
(* Btc5MinStrategy.computeFairValue (src/src/strategies/btc-5min.ts).      *)
(* Within a five-minute window sqrt(T) is below 0.004, so for the BTC      *)
(* prices of the model (ratios of 3/2 and more) |d| exceeds 100 and the    *)
(* normal CDF is 0 or 1 in floating point: the result is the clamp bound.  *)
(* The result is a set so that callers draw from it.                       *)
(***************************************************************************)
computeFairValue(btcPrice, strike, vol) ==
  IF btcPrice <= 0 \/ strike <= 0 \/ vol <= 0 THEN {Half}
  ELSE IF btcPrice > strike THEN {FV_MAX}
  ELSE IF btcPrice < strike THEN {FV_MIN}
  ELSE {Half}

\* 1e-10 years in milliseconds: 365.25 * 24 * 3600 * 1000 * 1e-10 = 3.15576
YearFloorMs == [n |-> 39447, d |-> 12500]

\* variant of timeToExpiryYears without the floor
timeToExpiryYearsRaw(tteMs) == Norm(tteMs * YearFloorMs.d, YearFloorMs.n)

\* line 232: T = max(timeToExpiryMs / 1000 / (365.25 * 24 * 3600), 1e-10),
\* in units of 1e-10 years
timeToExpiryYears(tteMs) ==
  LET T == Norm(tteMs * YearFloorMs.d, YearFloorMs.n)
  IN  IF RLt(T, R(1)) THEN R(1) ELSE T

\* line 234: d = ln(S / K) / (vol * sqrt(T)) for positive S, K and vol, up
\* to its magnitude: the logarithm has the sign of S - K, and the divisor is
\* zero exactly when T is, which makes d infinite or, for S = K, NaN
logRatioOverVol(btcPrice, strike, vol, T) ==
  RDivInt(R(Sign(btcPrice - strike)), IF T.n = 0 THEN 0 ELSE 1)

\* lines 46-61 at the values d takes here: 0 and 1 where |d| exceeds 100,
\* a half at d = 0, NaN for NaN
normalCDF(x) ==
  IF IsNaN(x) THEN NaN
  ELSE IF x.n > 0 THEN R(ONE)
  ELSE IF x.n < 0 THEN R(0)
  ELSE R(Half)

\* line 235: Math.max(0.01, Math.min(0.99, x)); both return NaN for NaN
clampFairValue(x) ==
  IF IsNaN(x) THEN NaN
  ELSE IF RLt(x, R(FV_MIN)) THEN R(FV_MIN)
  ELSE IF RLt(R(FV_MAX), x) THEN R(FV_MAX)
  ELSE x

\* lines 227-239 with the time to expiry as the code receives it
computeFairValueAt(btcPrice, strike, vol, tteMs) ==
  IF btcPrice <= 0 \/ strike <= 0 \/ vol <= 0 THEN R(Half)
  ELSE clampFairValue(normalCDF(
         logRatioOverVol(btcPrice, strike, vol, timeToExpiryYears(tteMs))))

\* tick size of a discovered window, in thousandths (0.001 or 0.01)
WindowTick(w) == IF w % 2 = 1 THEN 1 ELSE 10

(***************************************************************************)
(* MarketManager (src/src/market-manager.ts).  A window is a number, 0     *)
(* stands for null.  The time to expiry of the current window is a phase:  *)
(* "live", "cutoff" (below quotingCutoffMs = 2 * discoveryIntervalMs =     *)
(* 30 s) or "expired" (0, also when there is no window).                   *)
(***************************************************************************)
\* variant of updateStrikePrice without the strikePrice > 0 test
updateStrikePriceAlways(cur, strike, btcPrice) ==
  IF cur = 0 THEN strike ELSE btcPrice

\* updateStrikePrice, lines 125-129: the strike afterwards
updateStrikePrice(cur, strike, btcPrice) ==
  IF cur = 0 \/ strike > 0 THEN strike ELSE btcPrice

\* variant of tickStarts that switches as soon as the window is expiring
tickStartsEarly(isAlive, cur, ph) ==
  IF ~isAlive THEN "none"
  ELSE IF ph # "live" \/ cur = 0 THEN "switch"
  ELSE "none"

\* tick, lines 68-89: the discovery a poll tick starts
tickStarts(isAlive, cur, ph) ==
  IF ~isAlive THEN "none"
  ELSE IF ph = "expired" \/ cur = 0 THEN "switch"
  ELSE IF ph = "cutoff" THEN "prefetch"
  ELSE "none"

\* variant of discoverActiveMarket without the catch clause
discoverActiveMarketRethrows(outcome) ==
  [market |-> outcome.market, threw |-> outcome.error]

\* discoverActiveMarket, btc-5min.ts lines 75-98: the market returned (0 for
\* null) and whether the call throws; outcome.error says that fetching or
\* picking threw
discoverActiveMarket(outcome) ==
  [market |-> IF outcome.error THEN 0 ELSE outcome.market, threw |-> FALSE]

\* variant of discoverAndSwitch without the conditionId test of line 98
discoverAndSwitchNoSameTest(cur, strike, discovered) ==
  IF discovered = 0
  THEN [current |-> cur, strikePrice |-> strike, emitted |-> 0]
  ELSE [current |-> discovered, strikePrice |-> 0, emitted |-> 1]

\* discoverAndSwitch after its await, lines 92-122; initialBtcPrice is never
\* set, so the new context's strikePrice is 0
discoverAndSwitch(cur, strike, discovered) ==
  IF discovered = 0
  THEN [current |-> cur, strikePrice |-> strike, emitted |-> 0]
  ELSE IF cur # 0 /\ cur = discovered
  THEN [current |-> cur, strikePrice |-> strike, emitted |-> 0]
  ELSE [current |-> discovered, strikePrice |-> 0, emitted |-> 1]

(***************************************************************************)
(* State.  QuotingAgent.btcPrice and .volatility are written at the start  *)
(* of the price handler and read only later in the same run, and           *)
(* ExecutionAgent.feeRateBps is only copied into signed orders: they carry *)
(* nothing from one handler to the next and are not state of the model.    *)
(***************************************************************************)
VARIABLES
  current,          \* MarketManager.current: 0 (null) or the window number
  strikePrice,      \* current.strikePrice, 0 while unset
  phase,            \* time to expiry of current: "live", "cutoff", "expired"
  tickSize,         \* QuotingAgent.tickSize
  lastQuote,        \* QuotingAgent.lastQuote, NoQuote for null
  qAliased,         \* QuotingAgent.position is RiskAgent's position object
  position,         \* RiskAgent.position
  halted,           \* RiskAgent.halted
  market,           \* ExecutionAgent.market: 0 (null) or the window number
  active,           \* ExecutionAgent.active (ActiveOrderSet)
  cancelInFlight,   \* ExecutionAgent.cancelInFlight
  cycles,           \* cancelAndReplace calls suspended at an await
  switches,         \* setMarket calls suspended at an await
  cancelAllPending, \* cancel-all requests of halt handling awaiting a reply
  obMarket,         \* OrderbookAgent.market: 0 (null) or the window number
  config,           \* CONFIG risk limits, read once at startup
  nFills,           \* fills delivered so far
  nCycles,          \* cycles started so far (numbers the venue's order ids)
  discoveries,      \* discoverActiveMarket calls awaiting the Gamma API
  alive,            \* MarketManager.alive
  pollTimer,        \* MarketManager.pollTimer is running
  netFilled,        \* BUY sizes minus SELL sizes since the reset (history)
  published,        \* the quote of the last 'quote' emission (history)
  lastSwitch,       \* payload of the last market_switch emission (history)
  delivered,        \* payload values at their last delivery (history)
  venue,            \* this account's orders resting at the venue
  channels,         \* the feeds' sockets, reconnect timers and alive flags
  books,            \* OrderbookAgent.yesBook and .noBook
  feed,             \* price messages and the price handlers run for them
  proc,             \* the Node process: running, shutting down or exited
  ev                \* what the last handler did (history)

vars == <<current, strikePrice, phase, tickSize, lastQuote, qAliased,
          position, halted, market, active, cancelInFlight, cycles, switches,
          cancelAllPending, obMarket, config, nFills, nCycles, discoveries,
          alive, pollTimer, netFilled, published, lastSwitch, delivered,
          venue, channels, books, feed, proc, ev>>

mmVars == <<current, strikePrice, phase>>

quotingVars == <<tickSize, lastQuote, qAliased>>

riskVars == <<position, halted>>

execVars == <<market, active, cancelInFlight, cycles, nCycles>>

pollVars == <<discoveries, alive, pollTimer>>

histVars == <<netFilled, published, lastSwitch>>

processVars == <<feed, proc>>

obVars == <<channels, books>>

\* the accepted orders that have been neither cancelled nor filled
NoVenue == {}

\* MarketDataAgent and OrderbookAgent before start(): no socket, no timer.
\* A socket is [id, chan, live, listening]; a timer is [id, chan, delay].
NoChannels ==
  [mdAlive |-> FALSE, obAlive |-> FALSE, ws |-> 0, marketWs |-> 0,
   userWs |-> 0, sockets |-> {}, timers |-> {}, created |-> 0,
   scheduled |-> 0, closes |-> 0, switches |-> 0, stopped |-> FALSE]

EmptyBook == [bids |-> <<>>, asks |-> <<>>]

NoBooks == [yes |-> EmptyBook, no |-> EmptyBook, changes |-> 0]

NoSwitch == [previous |-> 0, current |-> 0]

\* the Position of the last position_update and the strikePrice of the
\* context of the last market_switch, as they were when emitted
NoDelivery == [position |-> ZeroPosition, strike |-> 0]

\* ws messages received and not yet dispatched, their count, the price
\* handlers suspended at an await, and the stages run so far
NoFeed == [inbox |-> <<>>, arrived |-> 0, running |-> {}, log |-> <<>>]

\* the process with its pending shutdown calls
ProcRunning == [state |-> "running", shutdowns |-> 0]

\* pending discoverActiveMarket calls, by caller: start, a tick that found
\* the window missing or expired (switch), a tick that pre-fetches
NoDiscoveries == [start |-> 0, switch |-> 0, prefetch |-> 0]

EmptyActive ==
  [bidOrderId |-> 0, askOrderId |-> 0, bidPrice |-> 0, askPrice |-> 0,
   bidSize |-> 0, askSize |-> 0]

\* history record of one handler run
EvNone ==
  [kind |-> "none", decision |-> "NONE", quoted |-> FALSE,
   haltedBefore |-> FALSE, haltEmitted |-> FALSE, cancelAlls |-> 0,
   request |-> "none", cancelMarket |-> FALSE, coversBid |-> FALSE,
   coversAsk |-> FALSE, signedToken |-> 0, pricedWindow |-> 0,
   cycleError |-> FALSE, resetDirty |-> FALSE, adjusted |-> NoQuote,
   side |-> "NONE", price |-> 0, size |-> 0, started |-> "none",
   replied |-> "none", failed |-> FALSE, threw |-> FALSE, result |-> 0,
   emitted |-> 0, fairValue |-> 0, newQuote |-> FALSE, lastBid |-> 0,
   bidOk |-> FALSE, askOk |-> FALSE, signal |-> "none",
   shutdown |-> FALSE, args |-> <<>>, value |-> R(0), orderId |-> 0,
   chan |-> "none", wasAlive |-> FALSE,
   msg |-> [event_type |-> "none"]]

Ev(kind) == [EvNone EXCEPT !.kind = kind]

DefaultConfig ==
  [MAX_LOSS |-> MAX_LOSS, MAX_NOTIONAL |-> MAX_NOTIONAL,
   MAX_POSITION |-> MAX_POSITION]

Init ==
  /\ current = 0
  /\ strikePrice = 0
  /\ phase = "expired"
  /\ tickSize = 1
  /\ lastQuote = NoQuote
  /\ qAliased = FALSE
  /\ position = ZeroPosition
  /\ halted = FALSE
  /\ market = 0
  /\ active = EmptyActive
  /\ cancelInFlight = FALSE
  /\ cycles = {}
  /\ switches = {}
  /\ cancelAllPending = 0
  /\ obMarket = 0
  /\ config = DefaultConfig
  /\ nFills = 0
  /\ nCycles = 0
  /\ discoveries = NoDiscoveries
  /\ alive = TRUE
  /\ pollTimer = TRUE
  /\ netFilled = 0
  /\ published = NoQuote
  /\ lastSwitch = NoSwitch
  /\ delivered = NoDelivery
  /\ venue = NoVenue
  /\ channels = NoChannels
  /\ books = NoBooks
  /\ feed = NoFeed
  /\ proc = ProcRunning
  /\ ev = EvNone

\* the Position the QuotingAgent reads
quotingPosition == IF qAliased THEN position ELSE ZeroPosition

(***************************************************************************)
(* ExecutionAgent (src/src/agents/execution.ts).                           *)
(***************************************************************************)
\* the order ids the venue returns for the orders of cycle c
BidIdOf(c) == 2 * c - 1

AskIdOf(c) == 2 * c

\* an order id of another participant
ForeignOrderId == -1

\* variant of guardDrops without the in-flight test
guardDropsNoMarket(inFlight, mkt) == mkt = 0

\* line 90: the request is dropped
guardDrops(inFlight, mkt) == inFlight \/ mkt = 0

\* variant of cancelExistingSends that looks at the bid order only
cancelExistingSendsForBid(act, mkt) == act.bidOrderId # 0 /\ mkt # 0

\* lines 179-180: cancelExisting sends /cancel-market-orders
cancelExistingSends(act, mkt) ==
  (act.bidOrderId # 0 \/ act.askOrderId # 0) /\ mkt # 0

\* variant of finallyFlag that keeps the flag after a failure
finallyFlagKept(outcome) == outcome = "failed"

\* lines 133-135: cancelInFlight when the cycle leaves the try statement;
\* outcome is "complete" or "failed"
finallyFlag(outcome) == FALSE

\* lines 129-132: the catch clause emits cycle_error
catchEmitsError(outcome) == outcome = "failed"

\* variant of committedActive that records the ids only when both orders
\* were accepted
committedActiveAllOrNothing(c, bidOk, askOk) ==
  [bidOrderId |-> IF bidOk /\ askOk THEN BidIdOf(c.id) ELSE 0,
   askOrderId |-> IF bidOk /\ askOk THEN AskIdOf(c.id) ELSE 0,
   bidPrice |-> c.quote.bidPrice, askPrice |-> c.quote.askPrice,
   bidSize |-> c.quote.bidSize, askSize |-> c.quote.askSize]

\* lines 110-117: ActiveOrderSet written by a completed cycle
committedActive(c, bidOk, askOk) ==
  [bidOrderId |-> IF bidOk THEN BidIdOf(c.id) ELSE 0,
   askOrderId |-> IF askOk THEN AskIdOf(c.id) ELSE 0,
   bidPrice |-> c.quote.bidPrice, askPrice |-> c.quote.askPrice,
   bidSize |-> c.quote.bidSize, askSize |-> c.quote.askSize]

\* variant of activeAfterFailure that has written the quote's prices
activeAfterPartialWrite(act, quote) ==
  [act EXCEPT !.bidPrice = quote.bidPrice, !.askPrice = quote.askPrice]

\* ActiveOrderSet when a cycle ends in the catch clause (lines 129-132):
\* the assignment of line 110 has not been reached
activeAfterFailure(act, quote) == act

\* variant of handleFill without Math.max
handleFillUnclamped(act, orderId, filledAmount) ==
  IF orderId = act.bidOrderId
  THEN LET sz == act.bidSize - filledAmount
       IN  [act EXCEPT !.bidSize = sz,
                       !.bidOrderId = IF sz <= 0 THEN 0 ELSE act.bidOrderId]
  ELSE IF orderId = act.askOrderId
  THEN LET sz == act.askSize - filledAmount
       IN  [act EXCEPT !.askSize = sz,
                       !.askOrderId = IF sz <= 0 THEN 0 ELSE act.askOrderId]
  ELSE act

\* handleFill, lines 149-155
handleFill(act, orderId, filledAmount) ==
  IF orderId = act.bidOrderId
  THEN LET sz == Max(0, act.bidSize - filledAmount)
       IN  [act EXCEPT !.bidSize = sz,
                       !.bidOrderId = IF sz <= 0 THEN 0 ELSE act.bidOrderId]
  ELSE IF orderId = act.askOrderId
  THEN LET sz == Max(0, act.askSize - filledAmount)
       IN  [act EXCEPT !.askSize = sz,
                       !.askOrderId = IF sz <= 0 THEN 0 ELSE act.askOrderId]
  ELSE act

RECURSIVE handleFills(_, _)
handleFills(act, makers) ==
  IF makers = <<>> THEN act
  ELSE handleFills(handleFill(act, Head(makers).order_id,
                              Head(makers).matched_amount), Tail(makers))

\* one maker order of a fill, ours or foreign
MakerOrders(act, amounts) ==
  { [order_id |-> o, matched_amount |-> m] :
      o \in ({act.bidOrderId, act.askOrderId, ForeignOrderId} \ {0}),
      m \in amounts }

\* msg.maker_orders of a fill: at most one maker order
MakerLists(act, amounts) ==
  {<<>>} \cup { <<mo>> : mo \in MakerOrders(act, amounts) }

\* the synchronous part of cancelAndReplace (lines 89-103, 129-135): what the
\* call does before it first suspends.  Signing settles without I/O, and
\* Promise.all rejects at the first rejection, so a cycle whose signing
\* throws reaches catch and finally within the call.
cancelAndReplaceSync(signOk) ==
  LET dropped == guardDrops(cancelInFlight, market)
      sends == ~dropped /\ cancelExistingSends(active, market)
  IN  [request |-> IF dropped THEN "dropped"
                   ELSE IF signOk THEN "started" ELSE "failed",
       cancelMarket |-> sends,
       coversBid |-> sends /\ active.bidOrderId # 0,
       coversAsk |-> sends /\ active.askOrderId # 0,
       signedToken |-> IF dropped THEN 0 ELSE market]

\* variant of firstAwait that submits without waiting for the cancel
firstAwaitSubmits(cancelSent) == "batch"

\* lines 99-107: what a started cycle waits for first.  Promise.all is
\* awaited before submitOrdersBatch is called: with a cancel request sent
\* the cycle waits for its reply; with none (cancelExisting returned null)
\* and the signatures settled, the batch submission goes out at once
firstAwait(cancelSent) == IF cancelSent THEN "cancel" ELSE "batch"

\* the state after the synchronous part of cancelAndReplace
CancelAndReplaceCall(o, quote, pricedWin, maxCycles) ==
  IF o.request = "started"
  THEN /\ nCycles < maxCycles
       /\ nCycles' = nCycles + 1
       /\ cancelInFlight' = TRUE
       /\ cycles' = cycles \cup
            {[id |-> nCycles + 1, quote |-> quote, token |-> market,
              pricedWindow |-> pricedWin,
              stage |-> firstAwait(o.cancelMarket)]}
       /\ UNCHANGED <<market, active>>
  ELSE IF o.request = "failed"
  THEN /\ cancelInFlight' = finallyFlag("failed")
       /\ active' = activeAfterFailure(active, quote)
       /\ UNCHANGED <<market, cycles, nCycles>>
  ELSE UNCHANGED execVars

\* history of a cancelAndReplace call
EvRequest(e, o) ==
  [e EXCEPT !.request = o.request, !.cancelMarket = o.cancelMarket,
            !.coversBid = o.coversBid, !.coversAsk = o.coversAsk,
            !.signedToken = o.signedToken,
            !.cycleError = (o.request = "failed"
                            /\ catchEmitsError("failed"))]

\* cancelAndReplace resumes after the cancel reply (lines 99-107); the reply,
\* success or error, is not looked at; the batch submission is sent
CycleCancelRespOf(c) ==
  /\ c.stage = "cancel"
  /\ cycles' = (cycles \ {c}) \cup {[c EXCEPT !.stage = "batch"]}
  /\ ev' = EvNone
  /\ UNCHANGED <<mmVars, quotingVars, riskVars, market, active,
                 cancelInFlight, switches, cancelAllPending, obMarket,
                 config, obVars, processVars, delivered, nFills, nCycles,
                 pollVars, histVars>>

CycleCancelResp == \E c \in cycles : CycleCancelRespOf(c) /\ UNCHANGED venue

\* lines 110-135 once the submission has settled
CycleCommit(c, bidOk, askOk) ==
  /\ active' = committedActive(c, bidOk, askOk)
  /\ cancelInFlight' = finallyFlag("complete")
  /\ cycles' = cycles \ {c}
  /\ ev' = IF c.stage = "single"
           THEN [Ev("singles") EXCEPT !.bidOk = bidOk, !.askOk = askOk]
           ELSE EvNone
  /\ UNCHANGED <<mmVars, quotingVars, riskVars, market, switches,
                 cancelAllPending, obMarket, config, obVars, processVars,
                 delivered, nFills, nCycles, pollVars, histVars>>

\* reply to POST /orders (lines 202-204): per-order results
CycleBatchResp(B) ==
  \E c \in cycles, r \in B.results :
    /\ c.stage = "batch"
    /\ CycleCommit(c, r[1], r[2])
    /\ UNCHANGED venue

\* POST /orders fails (lines 205-210): the two single submissions are sent
CycleBatchError ==
  \E c \in cycles :
    /\ c.stage = "batch"
    /\ cycles' = (cycles \ {c}) \cup {[c EXCEPT !.stage = "single"]}
    /\ ev' = EvNone
    /\ UNCHANGED <<mmVars, quotingVars, riskVars, market, active,
                   cancelInFlight, switches, cancelAllPending, obMarket,
                   config, obVars, venue, processVars, delivered, nFills, nCycles, pollVars,
                 histVars>>

\* both POST /order replies have arrived (lines 207-221)
CycleSingleResp(B) ==
  \E c \in cycles, r \in B.results :
    /\ c.stage = "single"
    /\ CycleCommit(c, r[1], r[2])
    /\ UNCHANGED venue

\* reply to a cancel-all sent by halt handling (lines 138-146)
CancelAllRespOf(ok) ==
  /\ cancelAllPending > 0
  /\ cancelAllPending' = cancelAllPending - 1
  /\ active' = IF ok THEN EmptyActive ELSE active
  /\ ev' = EvNone
  /\ UNCHANGED <<mmVars, quotingVars, riskVars, market, cancelInFlight,
                 cycles, switches, obMarket, config, obVars, processVars,
                 delivered, nFills, nCycles, pollVars, histVars>>

CancelAllResp == \E ok \in BOOLEAN : CancelAllRespOf(ok) /\ UNCHANGED venue

\* setMarket after the cancel-all reply (lines 76-78, 141-145): the new
\* market is adopted and the fee-rate request is sent
SwitchCancelAllRespOf(h, ok) ==
  /\ h.stage = "cancelAll"
  /\ active' = IF ok THEN EmptyActive ELSE active
  /\ market' = h.win
  /\ switches' = (switches \ {h}) \cup {[h EXCEPT !.stage = "feeRate"]}
  /\ ev' = EvNone
  /\ UNCHANGED <<mmVars, quotingVars, riskVars, cancelInFlight, cycles,
                 cancelAllPending, obMarket, config, obVars, processVars,
                 delivered, nFills, nCycles, pollVars, histVars>>

SwitchCancelAllResp ==
  \E h \in switches, ok \in BOOLEAN :
    SwitchCancelAllRespOf(h, ok) /\ UNCHANGED venue

\* setMarket returns after the fee-rate reply (lines 78-82, 230-236); its
\* caller, the market_switch handler, goes on to orderbook.switchMarket
\* (index.ts line 73)
SwitchFeeRateResp ==
  \E h \in switches :
    /\ h.stage = "feeRate"
    /\ obMarket' = h.win
    /\ switches' = switches \ {h}
    /\ ev' = EvNone
    /\ UNCHANGED <<mmVars, quotingVars, riskVars, market, active,
                   cancelInFlight, cycles, cancelAllPending, config, obVars, venue, processVars, delivered, nFills,
                   nCycles, pollVars,
                 histVars>>

(***************************************************************************)
(* Coordinator (src/src/index.ts).                                         *)
(***************************************************************************)
\* variant of priceHandlerCancelAlls without the HALT branch
haltListenerCancelAlls(riskAction, emitHalt) == IF emitHalt THEN 1 ELSE 0

\* cancel-all requests issued while a price event is handled: one by the
\* 'halt' listener (lines 132-135), one by the HALT branch (lines 94-98)
priceHandlerCancelAlls(riskAction, emitHalt) ==
  (IF emitHalt THEN 1 ELSE 0) + (IF riskAction = "HALT" THEN 1 ELSE 0)

\* lines 94-101: a cycle is requested unless the decision is HALT or both
\* adjusted sizes are zero
requestsCycle(riskAction, adjusted) ==
  /\ riskAction # "HALT"
  /\ ~(adjusted.bidSize <= 0 /\ adjusted.askSize <= 0)

\* processFill (risk.ts lines 40-65) with the position_update listener
\* (index.ts lines 127-130): position, halted, whether 'halt' is emitted,
\* and the Position as it was when position_update was emitted (line 63)
processFill(pos, isHalted, lastQ, side, price, size, cfg) ==
  LET p1 == processFillPosition(pos, side, price, size)
      p2 == updateUnrealizedPnl(p1, IF lastQ = NoQuote THEN Half
                                    ELSE lastQ.fairValue)
      breach == checkLimits(p2, cfg.MAX_LOSS)
  IN  [position |-> p2, halted |-> haltedAfterLimits(isHalted, breach),
       emitHalt |-> breach, payload |-> p1]

\* price handler, lines 78-106; B bounds the run
PriceEvent(B) ==
  \E price \in B.prices, vol \in B.vols, signOk \in BOOLEAN :
    LET strike1 == updateStrikePrice(current, strikePrice, price)
    IN
    /\ strikePrice' = strike1
    /\ UNCHANGED <<current, phase, tickSize, qAliased, position, switches,
                   obMarket, config, obVars, venue, processVars, delivered, nFills, pollVars, netFilled, lastSwitch>>
    /\ IF current = 0 \/ phase # "live"
       THEN /\ ev' = EvNone
            /\ UNCHANGED <<lastQuote, halted, execVars, cancelAllPending,
                           published>>
       ELSE \E fv \in computeFairValue(price, strike1, vol) :
         LET quote == computeQuote(fv, vol, tickSize, quotingPosition.netDelta)
         IN
         IF quote = NoQuote
         THEN /\ ev' = EvNone
              /\ UNCHANGED <<lastQuote, halted, execVars, cancelAllPending,
                             published>>
         ELSE
           LET chk == checkQuote(position, halted, quote, config)
               adjusted == applyRiskAdjustment(position, quote, chk.action)
               nCancelAll == priceHandlerCancelAlls(chk.action, chk.emitHalt)
               e0 == [Ev("price") EXCEPT
                        !.pricedWindow = current, !.quoted = TRUE,
                        !.decision = chk.action, !.haltedBefore = halted,
                        !.haltEmitted = chk.emitHalt,
                        !.cancelAlls = nCancelAll]
           IN
           /\ lastQuote' = quote
           /\ published' = publishedAfter(published, lastQuote, quote)
           /\ halted' = chk.halted
           /\ cancelAllPending + nCancelAll <= B.pending
           /\ cancelAllPending' = cancelAllPending + nCancelAll
           /\ IF requestsCycle(chk.action, adjusted)
              THEN LET o == cancelAndReplaceSync(signOk)
                   IN  /\ CancelAndReplaceCall(o, adjusted, current, B.cycles)
                       /\ ev' = EvRequest(e0, o)
              ELSE /\ UNCHANGED execVars
                   /\ ev' = e0

\* fill handler, lines 109-118, with the halt listener (lines 132-135)
FillEvent(B) ==
  /\ obMarket # 0
  /\ nFills < B.fills
  /\ \E side \in Sides, price \in B.fillPrices, size \in FillSizes,
        makers \in MakerLists(active, B.amounts) :
       LET r == processFill(position, halted, lastQuote, side, price, size,
                            config)
           n == IF r.emitHalt THEN 1 ELSE 0
       IN  /\ position' = r.position
           /\ delivered' = [delivered EXCEPT !.position = r.payload]
           /\ netFilled' = netFilled + (IF side = "BUY" THEN size ELSE -size)
           /\ qAliased' = TRUE
           /\ halted' = r.halted
           /\ cancelAllPending + n <= B.pending
           /\ cancelAllPending' = cancelAllPending + n
           /\ active' = handleFills(active, makers)
           /\ ev' = [Ev("fill") EXCEPT !.haltedBefore = halted,
                                       !.haltEmitted = r.emitHalt,
                                       !.cancelAlls = n, !.side = side,
                                       !.price = price, !.size = size]
  /\ nFills' = nFills + 1
  /\ UNCHANGED <<mmVars, tickSize, lastQuote, market, cancelInFlight, cycles,
                 nCycles, switches, obMarket, config, obVars, venue, processVars, pollVars,
                 published, lastSwitch>>

\* the clock passes the quoting cutoff, then the expiry of the window
TimePasses ==
  /\ current # 0
  /\ phase # "expired"
  /\ phase' = IF phase = "live" THEN "cutoff" ELSE "expired"
  /\ ev' = EvNone
  /\ UNCHANGED <<current, strikePrice, quotingVars, riskVars, execVars,
                 switches, cancelAllPending, obMarket, config, obVars, venue, processVars, delivered, nFills, pollVars,
                 histVars>>

\* MarketManager.discoverAndSwitch finds the next window (market-manager.ts
\* lines 91-123) and the market_switch handler runs up to its await
\* (index.ts lines 59-72, execution.ts lines 75-76 and 138-140)
Rotation(B) ==
  /\ current = 0 \/ phase = "expired"
  /\ current < B.windows
  /\ LET r == riskResetForNewMarket(position, halted)
     IN  /\ position' = r.position
         /\ delivered' = [position |-> r.position, strike |-> 0]
         /\ halted' = r.halted
  /\ current' = current + 1
  /\ strikePrice' = 0
  /\ phase' = "live"
  /\ lastQuote' = NoQuote
  /\ qAliased' = FALSE
  /\ tickSize' = WindowTick(current + 1)
  /\ switches' = switches \cup {[win |-> current + 1, stage |-> "cancelAll"]}
  /\ netFilled' = 0
  /\ published' = NoQuote
  /\ lastSwitch' = [previous |-> current, current |-> current + 1]
  /\ ev' = [Ev("rotation") EXCEPT
              !.haltedBefore = halted,
              !.resetDirty = (position # ZeroPosition /\ halted
                              /\ lastQuote # NoQuote)]
  /\ UNCHANGED <<execVars, cancelAllPending, obMarket, config, obVars, venue, processVars,
                 nFills, pollVars>>

\* the coordinator under the bounds B
NextB(B) ==
  \/ PriceEvent(B)
  \/ FillEvent(B)
  \/ Rotation(B)
  \/ TimePasses
  \/ SwitchCancelAllResp
  \/ SwitchFeeRateResp
  \/ CycleCancelResp
  \/ CycleBatchResp(B)
  \/ CycleBatchError
  \/ CycleSingleResp(B)
  \/ CancelAllResp

\* the coordinator within one window, with halts
HaltBounds ==
  [windows |-> MaxHaltWindows, fills |-> MaxHaltFills,
   cycles |-> MaxHaltCycles, pending |-> MaxHaltPending,
   prices |-> BtcPricesAround, vols |-> {80}, fillPrices |-> {990},
   amounts |-> {50}, results |-> OrderResults]

NextHalt == NextB(HaltBounds)

SpecHalt == Init /\ [][NextHalt]_vars

\* the coordinator within one window, with two cycles
ReduceBounds ==
  [windows |-> MaxReduceWindows, fills |-> MaxReduceFills,
   cycles |-> MaxReduceCycles, pending |-> MaxReducePending,
   prices |-> BtcPrices, vols |-> {80}, fillPrices |-> {990},
   amounts |-> {50}, results |-> OrderResults]

NextReduce == NextB(ReduceBounds)

SpecReduce == Init /\ [][NextReduce]_vars

\* the coordinator across a rotation
RotateBounds ==
  [windows |-> MaxRotateWindows, fills |-> MaxRotateFills,
   cycles |-> MaxRotateCycles, pending |-> MaxRotatePending,
   prices |-> BtcPrices, vols |-> {80}, fillPrices |-> {990},
   amounts |-> {}, results |-> {<<TRUE, TRUE>>, <<FALSE, FALSE>>}]

NextRotate == NextB(RotateBounds)

SpecRotate == Init /\ [][NextRotate]_vars

(***************************************************************************)
(* The ExecutionAgent alone: its public operations called in any order.    *)
(***************************************************************************)
\* quotes handed to cancelAndReplace: a two-sided one and a reduce-only one
ExecQuotes ==
  {computeQuote(Half, 0, 1, 0),
   [computeQuote(FV_MAX, 80, 1, 1010) EXCEPT !.bidSize = 0]}

\* the market handed to setMarket
ExecMarkets == {1}

ExecBounds == [results |-> OrderResults]

ExecCancelAndReplace ==
  \E quote \in ExecQuotes, signOk \in BOOLEAN :
    LET o == cancelAndReplaceSync(signOk)
    IN  /\ CancelAndReplaceCall(o, quote, 0, MaxExecCycles)
        /\ ev' = EvRequest(Ev("request"), o)
        /\ UNCHANGED <<mmVars, quotingVars, riskVars, switches,
                       cancelAllPending, obMarket, config, obVars, venue, processVars, delivered, nFills, pollVars,
                 histVars>>

\* setMarket(w) up to its first await (lines 75-76, 138-140)
ExecSetMarket ==
  \E w \in ExecMarkets :
    /\ \A h \in switches : h.win # w
    /\ switches' = switches \cup {[win |-> w, stage |-> "cancelAll"]}
    /\ ev' = EvNone
    /\ UNCHANGED <<mmVars, quotingVars, riskVars, execVars, cancelAllPending,
                   obMarket, config, obVars, venue, processVars, delivered, nFills, pollVars,
                 histVars>>

\* cancelAll() up to its await (lines 138-140)
ExecCancelAll ==
  /\ cancelAllPending < MaxExecPending
  /\ cancelAllPending' = cancelAllPending + 1
  /\ ev' = [Ev("cancel_all") EXCEPT !.cancelAlls = 1]
  /\ UNCHANGED <<mmVars, quotingVars, riskVars, execVars, switches, obMarket,
                 config, obVars, venue, processVars, delivered, nFills, pollVars,
                 histVars>>

\* handleFill(orderId, filledAmount, side), lines 148-157
ExecHandleFill ==
  /\ nFills < MaxExecFills
  /\ \E mo \in MakerOrders(active, MatchedAmounts) :
       /\ active' = handleFill(active, mo.order_id, mo.matched_amount)
       /\ ev' = [Ev("fill") EXCEPT !.orderId = mo.order_id,
                                   !.size = mo.matched_amount]
  /\ nFills' = nFills + 1
  /\ UNCHANGED <<mmVars, quotingVars, riskVars, market, cancelInFlight,
                 cycles, nCycles, switches, cancelAllPending, obMarket,
                 config, obVars, venue, processVars, delivered, pollVars,
                 histVars>>

NextExec ==
  \/ ExecCancelAndReplace
  \/ ExecSetMarket
  \/ ExecCancelAll
  \/ ExecHandleFill
  \/ SwitchCancelAllResp
  \/ SwitchFeeRateResp
  \/ CycleCancelResp
  \/ CycleBatchResp(ExecBounds)
  \/ CycleBatchError
  \/ CycleSingleResp(ExecBounds)
  \/ CancelAllResp

SpecExec == Init /\ [][NextExec]_vars

\* every request sent to the venue is answered, with a result or an error
ReplyFairness ==
  /\ WF_vars(CycleCancelResp)
  /\ WF_vars(CycleBatchResp(ExecBounds) \/ CycleBatchError)
  /\ WF_vars(CycleSingleResp(ExecBounds))
  /\ WF_vars(CancelAllResp)
  /\ WF_vars(SwitchCancelAllResp)
  /\ WF_vars(SwitchFeeRateResp)

FairSpecExec == SpecExec /\ ReplyFairness

(***************************************************************************)
(* The RiskAgent with the QuotingAgent, under any limit configuration.     *)
(***************************************************************************)
Configs ==
  {DefaultConfig,
   [MAX_LOSS |-> MAX_LOSS, MAX_NOTIONAL |-> 600000, MAX_POSITION |-> 2000]}

InitRisk ==
  /\ config \in Configs
  /\ current = 0
  /\ strikePrice = 0
  /\ phase = "expired"
  /\ tickSize = 1
  /\ lastQuote = NoQuote
  /\ qAliased = FALSE
  /\ position = ZeroPosition
  /\ halted = FALSE
  /\ market = 0
  /\ active = EmptyActive
  /\ cancelInFlight = FALSE
  /\ cycles = {}
  /\ switches = {}
  /\ cancelAllPending = 0
  /\ obMarket = 0
  /\ nFills = 0
  /\ nCycles = 0
  /\ discoveries = NoDiscoveries
  /\ alive = TRUE
  /\ pollTimer = TRUE
  /\ netFilled = 0
  /\ published = NoQuote
  /\ lastSwitch = NoSwitch
  /\ delivered = NoDelivery
  /\ venue = NoVenue
  /\ channels = NoChannels
  /\ books = NoBooks
  /\ feed = NoFeed
  /\ proc = ProcRunning
  /\ ev = EvNone

\* the quotes computeQuote can return in the current state
CandidateQuotes ==
  { computeQuote(fv, vol, tickSize, quotingPosition.netDelta) :
      fv \in FairValues, vol \in Vols } \ {NoQuote}

\* processFill with its listeners, for at most maxFills fills drawn from
\* prices and sizes
RiskProcessFillOf(maxFills, prices, sizes) ==
  /\ nFills < maxFills
  /\ \E side \in Sides, price \in prices, size \in sizes :
       LET r == processFill(position, halted, lastQuote, side, price, size,
                            config)
       IN  /\ position' = r.position
           /\ delivered' = [delivered EXCEPT !.position = r.payload]
           /\ netFilled' = netFilled + (IF side = "BUY" THEN size ELSE -size)
           /\ halted' = r.halted
           /\ ev' = [Ev("fill") EXCEPT !.haltedBefore = halted,
                                       !.haltEmitted = r.emitHalt,
                                       !.side = side, !.price = price,
                                       !.size = size]
  /\ qAliased' = TRUE
  /\ nFills' = nFills + 1
  /\ UNCHANGED <<mmVars, tickSize, lastQuote, execVars, switches,
                 cancelAllPending, obMarket, config, obVars, venue, processVars, pollVars,
                 published, lastSwitch>>

RiskProcessFill == RiskProcessFillOf(MaxRiskFills, FillPrices, FillSizes)

\* computeQuote followed by checkQuote (index.ts lines 90-93)
RiskCheckQuote ==
  \E quote \in CandidateQuotes :
    LET chk == checkQuote(position, halted, quote, config)
    IN  /\ lastQuote' = quote
        /\ published' = publishedAfter(published, lastQuote, quote)
        /\ halted' = chk.halted
        /\ ev' = [Ev("check") EXCEPT !.quoted = TRUE,
                                     !.decision = chk.action,
                                     !.haltedBefore = halted,
                                     !.haltEmitted = chk.emitHalt]
        /\ UNCHANGED <<mmVars, tickSize, qAliased, position, execVars,
                       switches, cancelAllPending, obMarket, config, obVars, venue, processVars, delivered, nFills,
                       pollVars, netFilled, lastSwitch>>

\* unhalt(), risk.ts lines 122-125
RiskUnhalt ==
  /\ halted' = FALSE
  /\ ev' = [Ev("unhalt") EXCEPT !.haltedBefore = halted]
  /\ UNCHANGED <<mmVars, quotingVars, position, execVars, switches,
                 cancelAllPending, obMarket, config, obVars, venue, processVars, delivered, nFills, pollVars,
                 histVars>>

\* the resets of a rotation (index.ts lines 68-70)
RiskResetForNewMarket ==
  /\ LET r == riskResetForNewMarket(position, halted)
     IN  /\ position' = r.position
         /\ delivered' = [delivered EXCEPT !.position = r.position]
         /\ halted' = r.halted
  /\ lastQuote' = NoQuote
  /\ qAliased' = FALSE
  /\ netFilled' = 0
  /\ published' = NoQuote
  /\ \E t \in Ticks : tickSize' = t
  /\ ev' = [Ev("rotation") EXCEPT
              !.haltedBefore = halted,
              !.resetDirty = (position # ZeroPosition /\ halted
                              /\ lastQuote # NoQuote)]
  /\ UNCHANGED <<mmVars, execVars, switches, cancelAllPending, obMarket,
                 config, obVars, venue, processVars, nFills, pollVars, lastSwitch>>

\* applyRiskAdjustment on the last computed quote, for any risk action
RiskApplyAdjustment ==
  /\ lastQuote # NoQuote
  /\ \E action \in RiskActions :
       ev' = [Ev("adjust") EXCEPT
                !.decision = action,
                !.adjusted = applyRiskAdjustment(position, lastQuote, action)]
  /\ UNCHANGED <<mmVars, quotingVars, riskVars, execVars, switches,
                 cancelAllPending, obMarket, config, obVars, venue, processVars, delivered, nFills, pollVars,
                 histVars>>

NextRisk ==
  \/ RiskProcessFill
  \/ RiskCheckQuote
  \/ RiskApplyAdjustment
  \/ RiskUnhalt
  \/ RiskResetForNewMarket

SpecRisk == InitRisk /\ [][NextRisk]_vars

(***************************************************************************)
(* The MarketManager alone: start, poll ticks, discovery replies in any    *)
(* order, the clock, reference prices and stop.                            *)
(***************************************************************************)
InitManager ==
  /\ current = 0
  /\ strikePrice = 0
  /\ phase = "expired"
  /\ tickSize = 1
  /\ lastQuote = NoQuote
  /\ qAliased = FALSE
  /\ position = ZeroPosition
  /\ halted = FALSE
  /\ market = 0
  /\ active = EmptyActive
  /\ cancelInFlight = FALSE
  /\ cycles = {}
  /\ switches = {}
  /\ cancelAllPending = 0
  /\ obMarket = 0
  /\ config = DefaultConfig
  /\ nFills = 0
  /\ nCycles = 0
  /\ discoveries = [NoDiscoveries EXCEPT !.start = 1]
  /\ alive = TRUE
  /\ pollTimer = FALSE
  /\ netFilled = 0
  /\ published = NoQuote
  /\ lastSwitch = NoSwitch
  /\ delivered = NoDelivery
  /\ venue = NoVenue
  /\ channels = NoChannels
  /\ books = NoBooks
  /\ feed = NoFeed
  /\ proc = ProcRunning
  /\ ev = EvNone

\* what the Gamma API call of a discovery can come to
DiscoveryOutcomes ==
  {[error |-> TRUE, market |-> 0]} \cup
  {[error |-> FALSE, market |-> w] : w \in 0..MaxManagerWindows}

PendingDiscoveries ==
  discoveries.start + discoveries.switch + discoveries.prefetch

managerRest ==
  <<quotingVars, riskVars, execVars, switches, cancelAllPending, obMarket,
    config, obVars, venue, processVars, delivered, nFills, netFilled, published>>

\* a poll tick (setInterval callback) up to its await
ManagerTick ==
  /\ pollTimer
  /\ PendingDiscoveries < MaxManagerPending
  /\ LET k == tickStarts(alive, current, phase)
     IN  /\ discoveries' =
              IF k = "none" THEN discoveries
              ELSE [discoveries EXCEPT ![k] = @ + 1]
         /\ ev' = [Ev("tick") EXCEPT !.started = k]
  /\ UNCHANGED <<mmVars, alive, pollTimer, lastSwitch, managerRest>>

\* the discovery of start() or of a tick's discoverAndSwitch settles and the
\* caller runs to its end
ManagerSwitchReply ==
  \E k \in {"start", "switch"}, outcome \in DiscoveryOutcomes :
    LET d == discoverActiveMarket(outcome)
        r == discoverAndSwitch(current, strikePrice, d.market)
    IN  /\ discoveries[k] > 0
        /\ discoveries' = [discoveries EXCEPT ![k] = @ - 1]
        /\ current' = r.current
        /\ strikePrice' = r.strikePrice
        /\ \E ph \in {"live", "cutoff"} :
             phase' = IF r.emitted > 0 THEN ph ELSE phase
        /\ lastSwitch' = IF r.emitted > 0
                         THEN [previous |-> current, current |-> r.current]
                         ELSE lastSwitch
        /\ pollTimer' = IF k = "start" /\ ~d.threw THEN TRUE ELSE pollTimer
        /\ ev' = [Ev("reply") EXCEPT !.replied = k, !.failed = outcome.error,
                                     !.threw = d.threw, !.result = d.market,
                                     !.emitted = r.emitted]
        /\ UNCHANGED <<alive, managerRest>>

\* the discovery of a pre-fetching tick settles (lines 80-87: logging only)
ManagerPrefetchReply ==
  \E outcome \in DiscoveryOutcomes :
    LET d == discoverActiveMarket(outcome)
    IN  /\ discoveries.prefetch > 0
        /\ discoveries' = [discoveries EXCEPT !.prefetch = @ - 1]
        /\ ev' = [Ev("reply") EXCEPT !.replied = "prefetch",
                                     !.failed = outcome.error,
                                     !.threw = d.threw, !.result = d.market]
        /\ UNCHANGED <<mmVars, alive, pollTimer, lastSwitch, managerRest>>

\* updateStrikePrice called by the price handler (index.ts line 82)
ManagerUpdateStrikePrice ==
  /\ \E price \in BtcPrices :
       /\ strikePrice' = updateStrikePrice(current, strikePrice, price)
       /\ ev' = [Ev("strike") EXCEPT !.price = price]
  /\ UNCHANGED <<current, phase, pollVars, lastSwitch, managerRest>>

\* the clock passes the 30 s mark, then the expiry of the window
ManagerTimePasses ==
  /\ current # 0
  /\ phase # "expired"
  /\ phase' = IF phase = "live" THEN "cutoff" ELSE "expired"
  /\ ev' = EvNone
  /\ UNCHANGED <<current, strikePrice, pollVars, lastSwitch, managerRest>>

\* stop(), lines 44-47
ManagerStop ==
  /\ alive
  /\ alive' = FALSE
  /\ pollTimer' = FALSE
  /\ ev' = Ev("stop")
  /\ UNCHANGED <<mmVars, discoveries, lastSwitch, managerRest>>

NextManager ==
  \/ ManagerTick
  \/ ManagerSwitchReply
  \/ ManagerPrefetchReply
  \/ ManagerUpdateStrikePrice
  \/ ManagerTimePasses
  \/ ManagerStop

SpecManager == InitManager /\ [][NextManager]_vars

\* the interval timer keeps firing and every discovery call settles
ManagerFairness ==
  /\ WF_vars(ManagerTick)
  /\ WF_vars(ManagerSwitchReply)
  /\ WF_vars(ManagerPrefetchReply)

FairSpecManager == SpecManager /\ ManagerFairness

(***************************************************************************)
(* The QuotingAgent alone: computeQuote for any fair value, with tick      *)
(* sizes, positions and resets in between.                                 *)
(***************************************************************************)
\* fair values outside (0, 1), at its edges and one tick apart around 0.41
QuoteFairValues == {-10, 0, 5, 410, 411, 412, 995, ONE, 1010}

\* venue tick sizes 0.001, 0.01 and 0.1
QuoteTicks == {1, 10, 100}

QuoteNetDeltas == {-2000, 0, 3}

quoteRest ==
  <<mmVars, halted, execVars, switches, cancelAllPending, obMarket, config, obVars, venue, processVars, delivered,
    nFills, pollVars, lastSwitch>>

\* computeQuote(fairValue), lines 69-102, after updateMarketData
QuoteCompute ==
  /\ \E fv \in QuoteFairValues, vol \in Vols :
       LET quote == computeQuote(fv, vol, tickSize, quotingPosition.netDelta)
       IN  IF quote = NoQuote
           THEN /\ ev' = [Ev("quote") EXCEPT !.fairValue = fv]
                /\ UNCHANGED <<lastQuote, published>>
           ELSE /\ lastQuote' = quote
                /\ published' = publishedAfter(published, lastQuote, quote)
                /\ ev' = [Ev("quote") EXCEPT
                            !.fairValue = fv, !.quoted = TRUE,
                            !.lastBid = lastQuote.bidPrice,
                            !.newQuote = shouldRequote(lastQuote, quote)]
  /\ UNCHANGED <<tickSize, qAliased, position, netFilled, quoteRest>>

\* setTickSize, line 34
QuoteSetTickSize ==
  /\ \E t \in QuoteTicks : tickSize' = t
  /\ ev' = Ev("tickSize")
  /\ UNCHANGED <<lastQuote, published, qAliased, position, netFilled,
                 quoteRest>>

\* updatePosition, line 38, with the position of a position_update
QuoteUpdatePosition ==
  /\ \E nd \in QuoteNetDeltas :
       /\ position' = [ZeroPosition EXCEPT !.yesShares = nd, !.netDelta = nd]
       /\ netFilled' = nd
  /\ qAliased' = TRUE
  /\ ev' = Ev("position")
  /\ UNCHANGED <<tickSize, lastQuote, published, quoteRest>>

\* resetForNewMarket, lines 104-114
QuoteResetForNewMarket ==
  /\ lastQuote' = NoQuote
  /\ published' = NoQuote
  /\ qAliased' = FALSE
  /\ ev' = Ev("rotation")
  /\ UNCHANGED <<tickSize, position, netFilled, quoteRest>>

NextQuote ==
  \/ QuoteCompute
  \/ QuoteSetTickSize
  \/ QuoteUpdatePosition
  \/ QuoteResetForNewMarket

SpecQuote == Init /\ [][NextQuote]_vars

(***************************************************************************)
(* The position under small fills, from a flat position.                   *)
(***************************************************************************)
SmallFillPrices == {450, 500}

SmallFillSizes == {4, 10}

SmallFill == RiskProcessFillOf(MaxSmallFills, SmallFillPrices, SmallFillSizes)

NextPosition ==
  \/ SmallFill
  \/ RiskResetForNewMarket

SpecPosition == Init /\ [][NextPosition]_vars

(***************************************************************************)
(* The price feed: trade messages of the Binance socket are dispatched by  *)
(* the event loop one at a time, in arrival order; onTrade emits 'price'   *)
(* synchronously (src/unnamed/part_004 lines 77-99) and the listener of    *)
(* index.ts runs inside that emit.  A handler that reached an await would  *)
(* be suspended there and resumed by a later turn of the loop.             *)
(***************************************************************************)
\* how far the price handler gets: it returns at the expiry or cut-off test
\* (lines 85-87), when no quote could be computed (line 91), after the
\* cancel-all of a HALT (lines 94-98), when both adjusted sizes are zero
\* (line 101), or after requesting the cycle (line 103)
FeedOutcomes == {"late", "noQuote", "halt", "noSize", "cycle"}

\* the steps of the price handler in program order (lines 79-103)
priceHandlerStages(outcome) ==
  LET head == <<"marketData", "strikeLock">>
      quoted == head \o <<"fairValue", "quote">>
      checked == quoted \o <<"riskCheck">>
  IN  CASE outcome = "late" -> head
        [] outcome = "noQuote" -> quoted
        [] outcome = "halt" -> checked \o <<"cancelAll">>
        [] outcome = "noSize" -> checked
        [] OTHER -> checked \o <<"cycleRequest">>

\* variant of priceHandlerAwaits that waits for the risk check
priceHandlerAwaitsRisk(stage) == stage = "riskCheck"

\* the price handler is a plain function (line 78): none of its steps is
\* awaited; cancelAndReplace is called and its promise is left to .then
priceHandlerAwaits(stage) == FALSE

\* the steps a handler runs from step idx until it returns or suspends:
\* the log entries, and the step to resume at (0 when it has returned)
RECURSIVE runHandler(_, _)
runHandler(msg, idx) ==
  LET stages == priceHandlerStages(msg.outcome)
      entry == [id |-> msg.id, stage |-> stages[idx]]
  IN  IF idx = Len(stages)
      THEN [log |-> <<entry>>, resume |-> 0]
      ELSE IF priceHandlerAwaits(stages[idx])
      THEN [log |-> <<entry>>, resume |-> idx + 1]
      ELSE LET rest == runHandler(msg, idx + 1)
           IN  [log |-> <<entry>> \o rest.log, resume |-> rest.resume]

feedRest ==
  <<mmVars, quotingVars, riskVars, execVars, switches, cancelAllPending,
    obMarket, config, obVars, venue, proc, delivered, nFills, pollVars, histVars>>

\* a trade message arrives on the socket
FeedReceive ==
  \E outcome \in FeedOutcomes :
    /\ feed.arrived < MaxFeedMessages
    /\ feed' = [feed EXCEPT
                  !.arrived = @ + 1,
                  !.inbox = Append(@, [id |-> feed.arrived + 1,
                                       outcome |-> outcome])]
    /\ ev' = Ev("receive")
    /\ UNCHANGED feedRest

\* one turn of the event loop: the oldest message is dispatched (choice 0),
\* or a suspended handler is resumed
FeedDispatch ==
  \E choice \in (IF feed.inbox = <<>> THEN {} ELSE {0})
                   \cup {h.msg.id : h \in feed.running} :
    LET h == IF choice = 0
             THEN [msg |-> Head(feed.inbox), resume |-> 1]
             ELSE CHOOSE r \in feed.running : r.msg.id = choice
        run == runHandler(h.msg, h.resume)
    IN
    /\ feed' = [feed EXCEPT
                  !.inbox = IF choice = 0 THEN Tail(@) ELSE @,
                  !.running = (@ \ {h}) \cup
                     (IF run.resume = 0 THEN {}
                      ELSE {[msg |-> h.msg, resume |-> run.resume]}),
                  !.log = @ \o run.log]
    /\ ev' = Ev("dispatch")
    /\ UNCHANGED feedRest

NextFeed ==
  \/ FeedReceive
  \/ FeedDispatch

SpecFeed == Init /\ [][NextFeed]_vars

(***************************************************************************)
(* The process (src/src/index.ts lines 152-174): signals and runtime       *)
(* faults arrive while the ExecutionAgent trades; shutdown stops the       *)
(* agents, awaits cancel-all and exits.                                    *)
(***************************************************************************)
\* the process events with a listener (lines 164-174)
ProcessEvents ==
  {"SIGINT", "SIGTERM", "uncaughtException", "unhandledRejection"}

\* the runtime faults among them
RuntimeFaults == {"uncaughtException", "unhandledRejection"}

\* lines 164-174: the listeners of SIGINT, SIGTERM and uncaughtException
\* call shutdown; the listener of unhandledRejection logs the error
callsShutdown(event) == event # "unhandledRejection"

\* a signal or a fault reaches its listener; shutdown runs up to its await
\* (lines 153-158): the agents are stopped and DELETE /cancel-all is sent
ProcessEvent ==
  \E event \in ProcessEvents :
    /\ proc.state # "exited"
    /\ IF callsShutdown(event)
       THEN /\ proc.shutdowns < MaxProcShutdowns
            /\ proc' = [state |-> "shutdown", shutdowns |-> proc.shutdowns + 1]
       ELSE proc' = proc
    /\ ev' = [Ev(IF event \in RuntimeFaults THEN "fault" ELSE "signal")
                EXCEPT !.signal = event, !.shutdown = callsShutdown(event)]
    /\ UNCHANGED <<mmVars, quotingVars, riskVars, execVars, switches,
                   cancelAllPending, obMarket, config, obVars, venue, feed, delivered,
                   nFills, pollVars, histVars>>

\* shutdown after the reply to its cancel-all (lines 158-161, 141-145):
\* this.active is emptied if the request succeeded, and the process exits
ProcessShutdownResp ==
  \E ok \in BOOLEAN :
    /\ proc.state = "shutdown"
    /\ proc.shutdowns > 0
    /\ active' = IF ok THEN EmptyActive ELSE active
    /\ proc' = [state |-> "exited", shutdowns |-> proc.shutdowns - 1]
    /\ ev' = Ev("exit")
    /\ UNCHANGED <<mmVars, quotingVars, riskVars, market, cancelInFlight,
                   cycles, nCycles, switches, cancelAllPending, obMarket,
                   config, obVars, venue, feed, delivered, nFills, pollVars, histVars>>

\* market rotations and price events reach the ExecutionAgent until
\* shutdown has stopped the MarketManager and the MarketDataAgent
ProcessSetMarket == proc.state = "running" /\ ExecSetMarket

ProcessCancelAndReplace == proc.state = "running" /\ ExecCancelAndReplace

\* replies of the venue are handled until the process has exited
ProcessSwitchCancelAllResp == proc.state # "exited" /\ SwitchCancelAllResp

ProcessSwitchFeeRateResp == proc.state # "exited" /\ SwitchFeeRateResp

ProcessCycleCancelResp == proc.state # "exited" /\ CycleCancelResp

ProcessCycleBatchResp ==
  proc.state # "exited" /\ CycleBatchResp(ExecBounds)

NextProcess ==
  \/ ProcessEvent
  \/ ProcessShutdownResp
  \/ ProcessSetMarket
  \/ ProcessCancelAndReplace
  \/ ProcessSwitchCancelAllResp
  \/ ProcessSwitchFeeRateResp
  \/ ProcessCycleCancelResp
  \/ ProcessCycleBatchResp

SpecProcess == Init /\ [][NextProcess]_vars

(***************************************************************************)
(* The fair-value function alone, called with any spot, strike and         *)
(* volatility, positive or not, at times to expiry from 0 to the middle of *)
(* a window.                                                               *)
(***************************************************************************)
FairValueSpots == {-1, 0, 1, 2, 3}

FairValueStrikes == {-2, 0, 2}

FairValueVols == {-80, 0, 80}

\* milliseconds: at and below the floor of 3.15576 ms, and above it
FairValueTimes == {0, 1, 3, 4, 10000, 150000}

FairValueCompute ==
  \E btcPrice \in FairValueSpots, strike \in FairValueStrikes,
     vol \in FairValueVols, tteMs \in FairValueTimes :
    /\ ev' = [Ev("fairValue") EXCEPT
                !.args = <<btcPrice, strike, vol, tteMs>>,
                !.value = computeFairValueAt(btcPrice, strike, vol, tteMs)]
    /\ UNCHANGED <<mmVars, quotingVars, riskVars, execVars, switches,
                   cancelAllPending, obMarket, config, obVars, venue, processVars,
                   delivered, nFills, pollVars, histVars>>

NextFairValue == FairValueCompute

SpecFairValue == Init /\ [][NextFairValue]_vars

(***************************************************************************)
(* The feeds' connections: the Binance socket of the MarketDataAgent       *)
(* (src/unnamed/part_004) and the market and user sockets of the           *)
(* OrderbookAgent (src/src/agents/orderbook.ts), with remote closes,       *)
(* reconnect timers, switchMarket and stop.                                *)
(***************************************************************************)
\* setTimeout delays: part_004 line 103, orderbook.ts line 241
BINANCE_RECONNECT_MS == 1000

BOOK_RECONNECT_MS == 2000

\* variant of reconnectDelay with one delay for every feed
reconnectDelayUniform(chan) == BOOK_RECONNECT_MS

reconnectDelay(chan) ==
  IF chan = "binance" THEN BINANCE_RECONNECT_MS ELSE BOOK_RECONNECT_MS

\* the alive flag of the agent that owns the channel
ownerAlive(ch, chan) == IF chan = "binance" THEN ch.mdAlive ELSE ch.obAlive

\* removeAllListeners and close on the sockets with these ids
closeSockets(socks, ids) ==
  { IF s.id \in ids THEN [s EXCEPT !.live = FALSE, !.listening = FALSE]
    ELSE s : s \in socks }

\* disconnectAll, orderbook.ts lines 59-68
disconnectAll(ch) ==
  [ch EXCEPT !.sockets = closeSockets(@, {ch.marketWs, ch.userWs}),
             !.marketWs = 0, !.userWs = 0]

\* connect (part_004 lines 47-75), connectMarket and connectUser
\* (orderbook.ts lines 70-75, 111-116): nothing unless the agent is alive
\* and, for the order book, has a market; otherwise a new socket with its
\* listeners, assigned to the agent's field for the channel
connectChannel(ch, chan, mkt) ==
  IF ~ownerAlive(ch, chan) \/ (chan # "binance" /\ mkt = 0) THEN ch
  ELSE LET id == ch.created + 1
       IN  [ch EXCEPT
              !.created = id,
              !.sockets = @ \cup {[id |-> id, chan |-> chan, live |-> TRUE,
                                   listening |-> TRUE]},
              !.ws = IF chan = "binance" THEN id ELSE @,
              !.marketWs = IF chan = "market" THEN id ELSE @,
              !.userWs = IF chan = "user" THEN id ELSE @]

\* scheduleReconnect (part_004 lines 101-104, orderbook.ts lines 239-243)
scheduleReconnect(ch, chan) ==
  IF ~ownerAlive(ch, chan) THEN ch
  ELSE [ch EXCEPT
          !.scheduled = @ + 1,
          !.timers = @ \cup {[id |-> ch.scheduled + 1, chan |-> chan,
                              delay |-> reconnectDelay(chan)]}]

\* switchMarket, orderbook.ts lines 38-45 (the books are reset as well)
switchMarket(ch, mkt) ==
  connectChannel(connectChannel(disconnectAll(ch), "market", mkt),
                 "user", mkt)

\* MarketDataAgent.stop (part_004 lines 37-45) and OrderbookAgent.stop
\* (orderbook.ts lines 53-57), called one after the other by shutdown
stopFeeds(ch) ==
  LET md == [ch EXCEPT !.mdAlive = FALSE,
                       !.sockets = closeSockets(@, {ch.ws}), !.ws = 0]
      ob == disconnectAll([md EXCEPT !.obAlive = FALSE])
  IN  [ob EXCEPT !.timers = {}, !.stopped = TRUE]

channelsRest ==
  <<mmVars, quotingVars, riskVars, execVars, switches, cancelAllPending,
    config, venue, processVars, delivered, pollVars, histVars>>

\* startup, index.ts lines 144-145: marketData.start() and orderbook.start()
ChannelsStart ==
  /\ ~channels.mdAlive /\ ~channels.obAlive /\ ~channels.stopped
  /\ channels' = connectChannel([channels EXCEPT !.mdAlive = TRUE,
                                                 !.obAlive = TRUE],
                                "binance", obMarket)
  /\ ev' = Ev("start")
  /\ UNCHANGED <<obMarket, books, nFills, channelsRest>>

\* orderbook.switchMarket(current), index.ts line 73
ChannelsSwitchMarket ==
  \E w \in 1..MaxChannelSwitches :
    /\ channels.switches < MaxChannelSwitches
    /\ w = channels.switches + 1
    /\ obMarket' = w
    /\ books' = [NoBooks EXCEPT !.changes = books.changes]
    /\ channels' = [switchMarket(channels, w) EXCEPT !.switches = @ + 1]
    /\ ev' = Ev("switch")
    /\ UNCHANGED <<nFills, channelsRest>>

\* a socket is closed by the peer or the network; its 'close' listener,
\* if it still has one, schedules the reconnect
ChannelsSocketClose ==
  \E s \in channels.sockets :
    /\ s.live
    /\ channels.closes < MaxChannelCloses
    /\ LET closed == [channels EXCEPT
                        !.closes = @ + 1,
                        !.sockets = (@ \ {s}) \cup {[s EXCEPT !.live = FALSE]}]
       IN  channels' = IF s.listening THEN scheduleReconnect(closed, s.chan)
                       ELSE closed
    /\ ev' = [Ev("close") EXCEPT !.chan = s.chan,
                                 !.wasAlive = ownerAlive(channels, s.chan)]
    /\ UNCHANGED <<obMarket, books, nFills, channelsRest>>

\* a reconnect timer fires and runs its connect function
ChannelsTimerFires ==
  \E t \in channels.timers :
    /\ channels' = connectChannel([channels EXCEPT !.timers = @ \ {t}],
                                  t.chan, obMarket)
    /\ ev' = [Ev("reconnect") EXCEPT !.chan = t.chan,
                                     !.wasAlive = ownerAlive(channels, t.chan)]
    /\ UNCHANGED <<obMarket, books, nFills, channelsRest>>

\* shutdown, index.ts lines 155-156
ChannelsStop ==
  /\ channels.mdAlive \/ channels.obAlive
  /\ channels' = stopFeeds(channels)
  /\ ev' = Ev("stop")
  /\ UNCHANGED <<obMarket, books, nFills, channelsRest>>

\* the venue sends one fill on the user channel: every connection
\* subscribed for this account receives it, and each socket that has its
\* 'message' listener emits 'fill' (orderbook.ts lines 132-143, 182-194)
ChannelsFill ==
  /\ nFills < MaxChannelFills
  /\ \E s \in channels.sockets : s.chan = "user" /\ s.live
  /\ nFills' = nFills + 1
  /\ ev' = [Ev("fill") EXCEPT
              !.chan = "user",
              !.emitted = Cardinality({s \in channels.sockets :
                            s.chan = "user" /\ s.live /\ s.listening})]
  /\ UNCHANGED <<obMarket, obVars, channelsRest>>

NextChannels ==
  \/ ChannelsStart
  \/ ChannelsSwitchMarket
  \/ ChannelsSocketClose
  \/ ChannelsTimerFires
  \/ ChannelsStop
  \/ ChannelsFill

SpecChannels == Init /\ [][NextChannels]_vars

\* a timer set with setTimeout fires once its delay has passed
TimerFairness == WF_vars(ChannelsTimerFires)

FairSpecChannels == SpecChannels /\ TimerFairness

(***************************************************************************)
(* The two L2 books of the OrderbookAgent (src/src/agents/orderbook.ts):   *)
(* snapshots ('book') and incremental changes ('price_change') received    *)
(* on the market channel.  A level is [price, size], prices in thousandths.*)
(***************************************************************************)
AssetIds == {"yes", "no", "other"}

BookPrices == {410, 420, 430}

\* sizes of incremental changes; a snapshot level has size 10
ChangeSizes == {0, 20}

Level(p, s) == [price |-> p, size |-> s]

\* one side of a snapshot as sent: empty, one level, two levels in either
\* order
SnapshotSides ==
  {<<>>, <<Level(420, 10)>>, <<Level(410, 10), Level(430, 10)>>,
   <<Level(430, 10), Level(410, 10)>>}

PriceChanges ==
  [asset_id : AssetIds, side : {"BUY", "SELL"}, price : BookPrices,
   size : ChangeSizes]

\* price_changes of one message: one change, or a change of the yes token
\* reported for a second asset id as well
PriceChangeLists ==
  {<<c>> : c \in PriceChanges}
    \cup {<<c, [c EXCEPT !.asset_id = a]>> :
            c \in {pc \in PriceChanges : pc.asset_id = "yes"},
            a \in AssetIds \ {"yes"}}

\* the comparators of parseBook and applyPriceChange: bids by descending
\* price, asks by ascending price
before(a, b, side) ==
  IF side = "BUY" THEN a.price > b.price ELSE a.price < b.price

\* Array.prototype.sort with that comparator (stable)
RECURSIVE insertLevel(_, _, _)
insertLevel(sorted, l, side) ==
  IF sorted = <<>> THEN <<l>>
  ELSE IF before(l, Head(sorted), side) THEN <<l>> \o sorted
  ELSE <<Head(sorted)>> \o insertLevel(Tail(sorted), l, side)

RECURSIVE sortLevels(_, _)
sortLevels(levels, side) ==
  IF levels = <<>> THEN <<>>
  ELSE insertLevel(sortLevels(SubSeq(levels, 1, Len(levels) - 1), side),
                   levels[Len(levels)], side)

\* parseBook, orderbook.ts lines 201-213
parseBook(rawBids, rawAsks) ==
  [bids |-> sortLevels(rawBids, "BUY"), asks |-> sortLevels(rawAsks, "SELL")]

\* levels.findIndex((l) => l.price === price), 0 for -1
findIndex(levels, price) ==
  IF \E i \in 1..Len(levels) : levels[i].price = price
  THEN CHOOSE i \in 1..Len(levels) :
         /\ levels[i].price = price
         /\ \A j \in 1..(i - 1) : levels[j].price # price
  ELSE 0

\* levels.splice(idx, 1)
splice(levels, idx) ==
  SubSeq(levels, 1, idx - 1) \o SubSeq(levels, idx + 1, Len(levels))

\* variant of applyPriceChange that pushes a new level without sorting
applyPriceChangeUnsorted(book, change) == LET levels == IF change.side = "BUY" THEN book.bids ELSE book.asks idx == findIndex(levels, change.price) new == IF change.size = 0 THEN (IF idx > 0 THEN splice(levels, idx) ELSE levels) ELSE IF idx > 0 THEN [levels EXCEPT ![idx].size = change.size] ELSE Append(levels, Level(change.price, change.size)) IN IF change.side = "BUY" THEN [book EXCEPT !.bids = new] ELSE [book EXCEPT !.asks = new]

\* applyPriceChange, orderbook.ts lines 215-237
applyPriceChange(book, change) ==
  LET levels == IF change.side = "BUY" THEN book.bids ELSE book.asks
      idx == findIndex(levels, change.price)
      new == IF change.size = 0
             THEN (IF idx > 0 THEN splice(levels, idx) ELSE levels)
             ELSE IF idx > 0
             THEN [levels EXCEPT ![idx].size = change.size]
             ELSE sortLevels(Append(levels,
                                    Level(change.price, change.size)),
                             change.side)
  IN  IF change.side = "BUY" THEN [book EXCEPT !.bids = new]
      ELSE [book EXCEPT !.asks = new]

\* the 'book' branch of handleMarketMsg, orderbook.ts lines 158-166
applySnapshot(bk, msg) ==
  LET book == parseBook(msg.bids, msg.asks)
  IN  IF msg.asset_id = "yes" THEN [bk EXCEPT !.yes = book]
      ELSE IF msg.asset_id = "no" THEN [bk EXCEPT !.no = book]
      ELSE bk

\* the 'price_change' branch, lines 168-175: the target of a change is
\* the yes book when its asset id is the yes token, the no book otherwise
RECURSIVE applyPriceChanges(_, _)
applyPriceChanges(bk, changes) ==
  IF changes = <<>> THEN bk
  ELSE LET pc == Head(changes)
           next == IF pc.asset_id = "yes"
                   THEN [bk EXCEPT !.yes = applyPriceChange(@, pc)]
                   ELSE [bk EXCEPT !.no = applyPriceChange(@, pc)]
       IN  applyPriceChanges(next, Tail(changes))

\* handleMarketMsg, orderbook.ts lines 155-180
handleMarketMsg(bk, mkt, msg) ==
  IF mkt = 0 THEN bk
  ELSE IF msg.event_type = "book" THEN applySnapshot(bk, msg)
  ELSE IF msg.event_type = "price_change"
  THEN applyPriceChanges(bk, msg.price_changes)
  ELSE bk

\* the market channel has a connection whose 'message' listener is set
marketListening ==
  \E s \in channels.sockets : s.chan = "market" /\ s.live /\ s.listening

\* a 'book' message arrives on the market channel
BookSnapshot ==
  \E a \in AssetIds, bids \in SnapshotSides, asks \in SnapshotSides :
    LET msg == [event_type |-> "book", asset_id |-> a, bids |-> bids,
                asks |-> asks]
    IN  /\ marketListening
        /\ books.changes < MaxBookMessages
        /\ books' = [handleMarketMsg(books, obMarket, msg)
                       EXCEPT !.changes = @ + 1]
        /\ ev' = [Ev("book") EXCEPT !.msg = msg]
        /\ UNCHANGED <<obMarket, channels, nFills, channelsRest>>

\* a 'price_change' message arrives on the market channel
BookPriceChange ==
  \E changes \in PriceChangeLists :
    LET msg == [event_type |-> "price_change", price_changes |-> changes]
    IN  /\ marketListening
        /\ books.changes < MaxBookMessages
        /\ books' = [handleMarketMsg(books, obMarket, msg)
                       EXCEPT !.changes = @ + 1]
        /\ ev' = [Ev("price_change") EXCEPT !.msg = msg]
        /\ UNCHANGED <<obMarket, channels, nFills, channelsRest>>

NextBook ==
  \/ ChannelsStart
  \/ ChannelsSwitchMarket
  \/ BookSnapshot
  \/ BookPriceChange

SpecBook == Init /\ [][NextBook]_vars

(***************************************************************************)
(* The ExecutionAgent with the venue's side of its requests: venue is the  *)
(* set of the agent's orders resting at the venue, each [id, token].  An   *)
(* order rests from the reply that accepts it until the reply of a         *)
(* successful cancel request that covers it.                               *)
(***************************************************************************)
\* DELETE /cancel-market-orders for a market's token, when it succeeds
cancelMarketOrders(v, token) == {o \in v : o.token # token}

\* the orders of cycle c the venue accepted
acceptedOrders(c, bidOk, askOk) ==
  {[id |-> BidIdOf(c.id), token |-> c.token] : x \in {y \in {1} : bidOk}}
    \cup {[id |-> AskIdOf(c.id), token |-> c.token] :
            x \in {y \in {1} : askOk}}

\* the order ids ActiveOrderSet holds
orderIds(act) == {act.bidOrderId, act.askOrderId} \ {0}

\* cancelAndReplace(quote) up to its first await; when signing throws, the
\* cancel request already sent by cancelExisting is answered unobserved
VenueCancelAndReplace ==
  \E quote \in ExecQuotes, signOk \in BOOLEAN, ok \in BOOLEAN :
    LET o == cancelAndReplaceSync(signOk)
    IN  /\ CancelAndReplaceCall(o, quote, 0, MaxExecCycles)
        /\ ev' = EvRequest(Ev("request"), o)
        /\ venue' = IF o.request = "failed" /\ o.cancelMarket /\ ok
                    THEN cancelMarketOrders(venue, market) ELSE venue
        /\ UNCHANGED <<mmVars, quotingVars, riskVars, switches,
                       cancelAllPending, obMarket, config, obVars,
                       processVars, delivered, nFills, pollVars, histVars>>

\* reply to DELETE /cancel-market-orders: success or error (lines 182-191)
VenueCycleCancelResp ==
  \E c \in cycles, ok \in BOOLEAN :
    /\ CycleCancelRespOf(c)
    /\ venue' = IF ok THEN cancelMarketOrders(venue, c.token) ELSE venue

\* reply to POST /orders
VenueCycleBatchResp ==
  \E c \in cycles, r \in OrderResults :
    /\ c.stage = "batch"
    /\ CycleCommit(c, r[1], r[2])
    /\ venue' = venue \cup acceptedOrders(c, r[1], r[2])

\* replies to the two POST /order
VenueCycleSingleResp ==
  \E c \in cycles, r \in OrderResults :
    /\ c.stage = "single"
    /\ CycleCommit(c, r[1], r[2])
    /\ venue' = venue \cup acceptedOrders(c, r[1], r[2])

\* reply to DELETE /cancel-all sent by cancelAll()
VenueCancelAllResp ==
  \E ok \in BOOLEAN :
    /\ CancelAllRespOf(ok)
    /\ venue' = IF ok THEN {} ELSE venue

\* reply to DELETE /cancel-all sent by setMarket
VenueSwitchCancelAllResp ==
  \E h \in switches, ok \in BOOLEAN :
    /\ SwitchCancelAllRespOf(h, ok)
    /\ venue' = IF ok THEN {} ELSE venue

NextVenue ==
  \/ VenueCancelAndReplace
  \/ ExecSetMarket
  \/ ExecCancelAll
  \/ VenueSwitchCancelAllResp
  \/ SwitchFeeRateResp
  \/ VenueCycleCancelResp
  \/ VenueCycleBatchResp
  \/ CycleBatchError
  \/ VenueCycleSingleResp
  \/ VenueCancelAllResp

SpecVenue == Init /\ [][NextVenue]_vars

(***************************************************************************)
(* Properties.                                                             *)
(***************************************************************************)
\* C1: at most one cancelAndReplace cycle is in progress at any time, and a
\* request made while a cycle is in progress or while no market is set is
\* dropped: it signs nothing, sends no cancel and no submission, leaves the
\* ActiveOrderSet and the rest of the agent unchanged, and no cycle is ever
\* started for it later (a cycle starts only in the step of an accepted
\* request).
C1_SingleCycle ==
  /\ [](Cardinality(cycles) <= 1)
  /\ [][(ev'.request # "none" /\ (cancelInFlight \/ market = 0))
          => /\ ev'.request = "dropped"
             /\ ~ev'.cancelMarket
             /\ ev'.signedToken = 0
             /\ UNCHANGED execVars]_vars
  /\ [][({c.id : c \in cycles'} \ {c.id : c \in cycles} # {}
           \/ nCycles' # nCycles)
          => /\ ev'.request = "started"
             /\ ~cancelInFlight
             /\ market # 0]_vars

\* a request arrived while a cycle was suspended and was dropped
C1_Witness ==
  /\ ev.request = "dropped"
  /\ cancelInFlight
  /\ market # 0
  /\ \E c \in cycles : c.stage = "batch"

\* C2: the in-progress guard is released on every exit path of a cycle:
\* given that every venue request is answered, a raised guard is lowered
\* again, it is lowered when a cycle has failed, it is raised only while a
\* cycle is suspended, and a request made right after a failed cycle is not
\* dropped.
C2_GuardReleased ==
  /\ cancelInFlight ~> ~cancelInFlight
  /\ [](ev.request = "failed" => ~cancelInFlight)
  /\ [](cancelInFlight => cycles # {})
  /\ [][(ev.request = "failed" /\ ev'.request # "none")
          => ev'.request # "dropped"]_vars

\* a cycle failed after it had sent its cancel, and the guard is down
C2_Witness ==
  /\ ev.request = "failed"
  /\ ev.cancelMarket
  /\ ~cancelInFlight
  /\ nCycles > 0

\* C3: a cycle that fails emits cycle_error and leaves the ActiveOrderSet
\* equal to its value when the cycle started; cycle_error is emitted by
\* failed cycles only.
C3_FailureKeepsActive ==
  /\ [][ev'.request = "failed"
          => (ev'.cycleError /\ active' = active)]_vars
  /\ [](ev.cycleError => ev.request = "failed")

\* a cycle failed while orders of an earlier cycle were recorded
C3_Witness ==
  /\ ev.request = "failed"
  /\ ev.cycleError
  /\ active.bidOrderId # 0
  /\ active.askOrderId # 0

\* C4: rotation is atomic with respect to quoting; in particular no order
\* priced from the new window's fair value is signed for the previous
\* window's token: every cycle signs for the token of the window whose fair
\* value priced it.
C4_RotationAtomic ==
  /\ \A c \in cycles : c.token = c.pricedWindow
  /\ (ev.kind = "price" /\ ev.signedToken # 0)
       => ev.signedToken = ev.pricedWindow

\* C5: a rotation resets the Position to all zeros, the last quote to none
\* and the halted flag to false in the step in which the current window
\* changes, so that no quote of the new window is computed from the state
\* before.
C5_RotationResets ==
  [][current' # current
       => /\ position' = ZeroPosition
          /\ ~halted'
          /\ lastQuote' = NoQuote
          /\ ~qAliased']_vars

\* a rotation out of a window that ended halted, with a position and a quote
C5_Witness ==
  /\ ev.kind = "rotation"
  /\ ev.resetDirty
  /\ current = 2
  /\ position = ZeroPosition
  /\ ~halted
  /\ lastQuote = NoQuote

\* C6: once halted, checkQuote returns HALT for every candidate quote, and
\* neither a quote check nor a fill (with its PnL refresh) clears the flag:
\* the halted test comes before every other limit.
C6_HaltSticky ==
  /\ [](halted => \A q \in CandidateQuotes :
                    checkQuote(position, halted, q, config).action = "HALT")
  /\ [][(halted /\ ev'.kind = "check")
          => (ev'.decision = "HALT" /\ halted')]_vars
  /\ [][(halted /\ ev'.kind = "fill") => halted']_vars

\* a quote check answered HALT while the loss limit was no longer breached
C6_Witness ==
  /\ halted
  /\ ev.kind = "check"
  /\ ev.haltedBefore
  /\ ev.decision = "HALT"
  /\ ~checkLimits(position, config.MAX_LOSS)
  /\ position # ZeroPosition

\* C7 as stated: the halted flag goes from true to false only through
\* unhalt.
C7_OnlyUnhaltClears ==
  [][(halted /\ ~halted') => ev'.kind = "unhalt"]_vars

\* C7: the halted flag goes from true to false only through unhalt or
\* through the reset of a market rotation; quote checks and fills never
\* clear it.
C7_UnhaltOrRotationClears ==
  [][(halted /\ ~halted') => ev'.kind \in {"unhalt", "rotation"}]_vars

\* a rotation reset cleared a halt
C7_Witness ==
  /\ ev.kind = "rotation"
  /\ ev.haltedBefore
  /\ ~halted

\* C8: whenever checkQuote returns HALT on a price event, or a halt signal
\* is emitted, cancel-all is issued by the handling of that event and no
\* cancelAndReplace request is made for it.
C8_HaltCancelsAll ==
  /\ [](((ev.kind = "price" /\ ev.decision = "HALT") \/ ev.haltEmitted)
          => /\ ev.cancelAlls >= 1
             /\ cancelAllPending >= ev.cancelAlls
             /\ ev.request = "none"
             /\ ev.signedToken = 0)
  /\ [][(ev'.decision = "HALT" \/ ev'.haltEmitted)
          => /\ cancelAllPending' = cancelAllPending + ev'.cancelAlls
             /\ cycles' = cycles
             /\ nCycles' = nCycles]_vars

\* a price event was answered HALT while an order was recorded as resting
C8_Witness ==
  /\ ev.kind = "price"
  /\ ev.decision = "HALT"
  /\ ev.cancelAlls >= 1
  /\ active.askOrderId # 0

\* C9 as stated: handling a price event whose decision is REDUCE_ONLY sends
\* no cancel that covers the resting order of the still-allowed side (the
\* ask when long, the bid otherwise).
C9_AllowedSideKept ==
  (ev.kind = "price" /\ ev.decision = "REDUCE_ONLY")
    => ~(IF position.netDelta > 0 THEN ev.coversAsk ELSE ev.coversBid)

\* C9: handling a price event whose decision is REDUCE_ONLY issues no
\* cancel-all and makes an ordinary cancelAndReplace request; unless the
\* request is dropped, its cancel-by-market covers every recorded resting
\* order, the allowed side's included.
C9_ReduceOnlyReplaces ==
  (ev.kind = "price" /\ ev.decision = "REDUCE_ONLY")
    => /\ ev.cancelAlls = 0
       /\ ev.request # "none"
       /\ ev.request = "dropped" => ~ev.cancelMarket
       /\ ev.request # "dropped"
            => /\ ev.coversBid = (active.bidOrderId # 0)
               /\ ev.coversAsk = (active.askOrderId # 0)

\* a REDUCE_ONLY price event of a long position cancelled the resting ask
C9_Witness ==
  /\ ev.kind = "price"
  /\ ev.decision = "REDUCE_ONLY"
  /\ ev.request = "started"
  /\ position.netDelta > 0
  /\ ev.coversAsk
  /\ active.askOrderId # 0

\* the decision of C10, written from its statement
RefDecision(pos, isHalted, quote, cfg) ==
  IF isHalted
  THEN [action |-> "HALT", halted |-> TRUE, emitHalt |-> FALSE]
  ELSE IF RLt(RAdd(pos.realizedPnl, pos.unrealizedPnl), R(-cfg.MAX_LOSS))
  THEN [action |-> "HALT", halted |-> TRUE, emitHalt |-> TRUE]
  ELSE IF Abs(pos.netDelta) * quote.fairValue > cfg.MAX_NOTIONAL
  THEN [action |-> "REDUCE_ONLY", halted |-> FALSE, emitHalt |-> FALSE]
  ELSE IF Abs(pos.netDelta) > cfg.MAX_POSITION
  THEN [action |-> "REDUCE_ONLY", halted |-> FALSE, emitHalt |-> FALSE]
  ELSE [action |-> "ALLOW", halted |-> FALSE, emitHalt |-> FALSE]

\* C10: for every position, candidate quote and limit configuration,
\* checkQuote decides by the precedence halted, loss limit (setting halted
\* and emitting a halt signal), notional limit, position limit, ALLOW; a
\* quote check changes no state other than the halted flag, and changes
\* that only by setting it on a loss breach.
C10_Precedence ==
  /\ [](\A q \in CandidateQuotes :
          checkQuote(position, halted, q, config)
            = RefDecision(position, halted, q, config))
  /\ [][ev'.kind = "check"
          => /\ ev'.decision
                  = RefDecision(position, halted, lastQuote', config).action
             /\ position' = position
             /\ config' = config
             /\ halted' # halted => (halted' /\ ev'.haltEmitted)]_vars

\* a quote check under the second configuration answered REDUCE_ONLY by
\* the notional limit alone
C10_Witness ==
  /\ ev.kind = "check"
  /\ ev.decision = "REDUCE_ONLY"
  /\ config # DefaultConfig
  /\ Abs(position.netDelta) <= config.MAX_POSITION


C12_NetDeltaIsFillSum ==
  /\ position.netDelta = netFilled
  /\ position.yesShares = netFilled

\* a SELL processed after a reset that discarded an earlier fill
C12_Witness ==
  /\ ev.kind = "fill" /\ ev.side = "SELL"
  /\ nFills = 2
  /\ netFilled = -ev.size
  /\ position.netDelta = -ev.size

\* C13: a BUY of s at p sets avgEntryPrice to the average of the previous
\* average weighted by the previous shares and p weighted by s, and leaves
\* realizedPnl; a SELL of s at p adds (p - avgEntryPrice) * s to realizedPnl,
\* takes s from the net shares and leaves avgEntryPrice.  From flat, BUY 10
\* at 0.45 then SELL 4 at 0.50 gives avgEntryPrice 0.45, netDelta 6 and
\* realizedPnl 0.20.
C13_FillArithmetic ==
  [][ev'.kind = "fill" =>
       LET p == ev'.price
           s == ev'.size
           w == position.yesShares + s
       IN  /\ ev'.side = "BUY" =>
                /\ w # 0 =>
                     RMul(position'.avgEntryPrice, R(w)) =
                       RAdd(RMul(position.avgEntryPrice,
                                 R(position.yesShares)), R(p * s))
                /\ position'.realizedPnl = position.realizedPnl
                /\ position'.netDelta = position.netDelta + s
           /\ ev'.side = "SELL" =>
                /\ position'.realizedPnl =
                     RAdd(position.realizedPnl,
                          RMul(RSub(R(p), position.avgEntryPrice), R(s)))
                /\ position'.netDelta = position.netDelta - s
                /\ position'.avgEntryPrice = position.avgEntryPrice
           /\ (position = ZeroPosition /\ ev'.side = "BUY" /\ p = 450
                /\ s = 10) =>
                /\ position'.avgEntryPrice = R(450)
                /\ position'.netDelta = 10
                /\ position'.realizedPnl = R(0)
           /\ (position.netDelta = 10 /\ position.avgEntryPrice = R(450)
                /\ position.realizedPnl = R(0) /\ ev'.side = "SELL"
                /\ p = 500 /\ s = 4) =>
                /\ position'.avgEntryPrice = R(450)
                /\ position'.netDelta = 6
                /\ position'.realizedPnl = R(200)]_vars

\* the position of the example: BUY 10 at 0.45 from flat, then SELL 4 at 0.50
C13_Witness ==
  /\ ev.kind = "fill" /\ ev.side = "SELL" /\ ev.price = 500 /\ ev.size = 4
  /\ nFills = 2
  /\ position.netDelta = 6
  /\ position.avgEntryPrice = R(450)
  /\ position.realizedPnl = R(200)


\* C14: the strike of a window is unset (0) when its context is created, is
\* set by the first reference-price observation made while the window is
\* current, and no later observation changes it before the next rotation.
C14_StrikeLockedOnce ==
  [][/\ current' # current => strikePrice' = 0
     /\ (ev'.kind = "strike" /\ current # 0 /\ strikePrice = 0) =>
          strikePrice' = ev'.price
     /\ (current' = current /\ strikePrice # 0) => strikePrice' = strikePrice
     /\ (current' = current /\ strikePrice' # strikePrice) =>
          ev'.kind = "strike"]_vars

\* a later observation of another price has left the locked strike
C14_Witness ==
  /\ ev.kind = "strike"
  /\ current # 0
  /\ strikePrice # 0
  /\ ev.price # strikePrice

\* C15: a poll tick that finds the current window unexpired changes nothing
\* of the MarketManager's context and emits no rotation; below twice the poll
\* interval it starts a pre-fetch, whose reply changes nothing either; the
\* context is replaced only by the discovery of start or of a tick that found
\* the window missing or expired.
C15_TickFrame ==
  [][/\ (ev'.kind = "tick" /\ current # 0 /\ phase # "expired") =>
          /\ UNCHANGED <<current, strikePrice, phase, lastSwitch>>
          /\ ev'.emitted = 0
          /\ ev'.started = IF alive /\ phase = "cutoff" THEN "prefetch"
                           ELSE "none"
          /\ discoveries'.switch = discoveries.switch
     /\ (ev'.kind = "reply" /\ ev'.replied = "prefetch") =>
          /\ UNCHANGED <<current, strikePrice, phase, lastSwitch>>
          /\ ev'.emitted = 0
     /\ current' # current =>
          /\ ev'.kind = "reply"
          /\ ev'.replied \in {"start", "switch"}
     /\ discoveries'.switch > discoveries.switch =>
          /\ ev'.kind = "tick"
          /\ alive
          /\ current = 0 \/ phase = "expired"]_vars

\* a tick inside the last 30 s of the window has started a pre-fetch
C15_Witness ==
  /\ ev.kind = "tick"
  /\ ev.started = "prefetch"
  /\ current # 0
  /\ phase = "cutoff"
  /\ discoveries.prefetch > 0

\* C16: a discovery that returns nothing or the current window leaves the
\* context and emits nothing; one that returns another window assigns it with
\* the strike unset and emits exactly one rotation event {previous, current};
\* nothing else rotates, and two consecutive rotation events never carry the
\* same window, also when the discoveries of several ticks overlap.
C16_RotationOnDifferentWindow ==
  [][/\ (ev'.kind = "reply" /\ ev'.replied # "prefetch") =>
          IF ev'.result = 0 \/ ev'.result = current
          THEN /\ UNCHANGED <<current, strikePrice, phase, lastSwitch>>
               /\ ev'.emitted = 0
          ELSE /\ current' = ev'.result
               /\ strikePrice' = 0
               /\ ev'.emitted = 1
               /\ lastSwitch' = [previous |-> current, current |-> ev'.result]
     /\ ev'.kind # "reply" =>
          /\ ev'.emitted = 0
          /\ UNCHANGED <<current, lastSwitch>>
     /\ ev'.emitted > 0 =>
          /\ lastSwitch'.current # lastSwitch.current
          /\ lastSwitch'.previous = lastSwitch.current]_vars

\* the discovery of an overlapping tick returns the window that another
\* discovery has already rotated to
C16_Witness ==
  /\ ev.kind = "reply"
  /\ ev.replied = "switch"
  /\ ev.result = current
  /\ ev.emitted = 0
  /\ phase # "expired"
  /\ lastSwitch.current = current
  /\ lastSwitch.previous # 0

\* C17: a failed discovery yields no market and does not throw, leaves the
\* context, emits no rotation and starts no new discovery by itself; while
\* the manager is alive and the window is still missing or expired, the next
\* poll tick starts the discovery again.
C17_DiscoveryFailure ==
  /\ [][(ev'.kind = "reply" /\ ev'.failed) =>
           /\ ~ev'.threw
           /\ ev'.result = 0
           /\ ev'.emitted = 0
           /\ UNCHANGED <<current, strikePrice, phase, lastSwitch, alive>>
           /\ \E k \in {"start", "switch", "prefetch"} :
                discoveries' = [discoveries EXCEPT ![k] = @ - 1]]_vars
  /\ (ev.kind = "reply" /\ ev.failed /\ ev.replied # "prefetch")
       ~> \/ ev.kind = "tick" /\ ev.started = "switch"
          \/ ~alive
          \/ current # 0 /\ phase # "expired"

\* the discovery of a tick has failed while the window is expired
C17_Witness ==
  /\ ev.kind = "reply"
  /\ ev.failed
  /\ ev.replied = "switch"
  /\ alive
  /\ current # 0
  /\ phase = "expired"


\* C18: for every tick size, fair value, volatility and position,
\* computeQuote returns none or a quote whose bid and ask are multiples of
\* the tick size within [t, 1 - t] with bid < ask; for a fair value outside
\* (0, 1) it returns none.
C18_QuoteOnGrid ==
  ev.kind = "quote" =>
    /\ ev.quoted =>
         /\ lastQuote.bidPrice % tickSize = 0
         /\ lastQuote.askPrice % tickSize = 0
         /\ tickSize <= lastQuote.bidPrice
         /\ lastQuote.askPrice <= ONE - tickSize
         /\ lastQuote.bidPrice < lastQuote.askPrice
         /\ lastQuote.fairValue = ev.fairValue
    /\ (ev.fairValue <= 0 \/ ev.fairValue >= ONE) => ~ev.quoted

\* a quote on the 0.01 grid from a fair value that is off the grid
C18_Witness ==
  /\ ev.kind = "quote" /\ ev.quoted
  /\ tickSize = 10
  /\ ev.fairValue % 10 # 0
  /\ lastQuote.bidPrice = 400
  /\ lastQuote.askPrice = 420

\* C19: a computed quote is emitted exactly when it is the first quote for
\* the market or its bid or its ask differs from the last quote's by at least
\* REQUOTE_THRESHOLD_BPS in relative terms.  With last bid 0.40 and ask 0.44
\* and 50 bps, a new bid of 0.4002 does not trigger and 0.403 does (prices in
\* units of 0.0001).
C19_RequoteGate ==
  [][ev'.kind = "quote" =>
       /\ ev'.quoted =>
            (ev'.newQuote <=>
               \/ lastQuote = NoQuote
               \/ Abs(lastQuote'.bidPrice - lastQuote.bidPrice) * 10000
                    >= REQUOTE_THRESHOLD_BPS * lastQuote.bidPrice
               \/ Abs(lastQuote'.askPrice - lastQuote.askPrice) * 10000
                    >= REQUOTE_THRESHOLD_BPS * lastQuote.askPrice)
       /\ ~ev'.quoted => (~ev'.newQuote /\ UNCHANGED <<lastQuote, published>>)
       /\ ev'.newQuote => published' = lastQuote'
       /\ ~ev'.newQuote => published' = published
       /\ LET last == [NoQuote EXCEPT !.bidPrice = 4000, !.askPrice = 4400]
          IN  /\ ~shouldRequote(last, [last EXCEPT !.bidPrice = 4002])
              /\ shouldRequote(last, [last EXCEPT !.bidPrice = 4030])]_vars

\* a move of exactly 50 bps of the bid (0.400 to 0.402) has been emitted
C19_Witness ==
  /\ ev.kind = "quote" /\ ev.quoted /\ ev.newQuote
  /\ ev.lastBid = 400
  /\ lastQuote.bidPrice = 402
  /\ lastQuote.askPrice = 422
  /\ published = lastQuote

\* C20: whenever the bid or the ask of a computed quote differs from the last
\* emitted quote's by at least REQUOTE_THRESHOLD_BPS, that quote is emitted,
\* however small each single step was.
C20_DriftIsPublished ==
  [][(/\ ev'.kind = "quote" /\ ev'.quoted
      /\ published # NoQuote
      /\ \/ Abs(lastQuote'.bidPrice - published.bidPrice) * 10000
              >= REQUOTE_THRESHOLD_BPS * published.bidPrice
         \/ Abs(lastQuote'.askPrice - published.askPrice) * 10000
              >= REQUOTE_THRESHOLD_BPS * published.askPrice)
       => ev'.newQuote]_vars


\* C21: a price event asks the ExecutionController for a cancel-and-replace
\* cycle only when the requote gate passes: a computed quote that does not
\* differ from the last quote by REQUOTE_THRESHOLD_BPS is not sent.
C21_CycleOnlyWhenGatePasses ==
  [][(/\ ev'.kind = "price"
      /\ ev'.quoted
      /\ ~shouldRequote(lastQuote, lastQuote'))
       => ev'.request = "none"]_vars


\* C22: when setMarket adopts a new window, no order of the previous market
\* is recorded in ActiveOrderSet, whatever the cancel-all call returned.
C22_AdoptionLeavesNoOrder ==
  [][(market # 0 /\ market' # market) => active' = EmptyActive]_vars


\* C23: when the batch submission fails, both orders of the cycle are
\* submitted individually in the same cycle; each side's result is recorded
\* on its own (a failed side with a null id, the other side with its id), the
\* cycle completes without error, and nothing is submitted again.
C23_SingleFallback ==
  [][\A c \in cycles :
       /\ (c.stage = "batch" /\ c \notin cycles' /\ cancelInFlight')
            => /\ cycles' = (cycles \ {c}) \cup {[c EXCEPT !.stage = "single"]}
               /\ active' = active
       /\ (c.stage = "single" /\ c \notin cycles')
            => /\ ev'.kind = "singles"
               /\ active'.bidOrderId = IF ev'.bidOk THEN BidIdOf(c.id) ELSE 0
               /\ active'.askOrderId = IF ev'.askOk THEN AskIdOf(c.id) ELSE 0
               /\ ~ev'.cycleError
               /\ ~cancelInFlight'
               /\ cycles' = cycles \ {c}
               /\ nCycles' = nCycles]_vars

\* the bid was accepted and the ask refused by the single submissions
C23_Witness ==
  /\ ev.kind = "singles"
  /\ ev.bidOk /\ ~ev.askOk
  /\ active.bidOrderId # 0
  /\ active.askOrderId = 0
  /\ ~cancelInFlight


\* C24: price events are processed one at a time in arrival order: the steps
\* of one price event (market-data update, strike lock, fair value, quote,
\* risk check, cycle request) all happen before any step of the next.
C24_OneAtATime ==
  /\ feed.running = {}
  /\ \A i, j \in 1..Len(feed.log) :
        i < j => /\ feed.log[i].id <= feed.log[j].id
                 /\ feed.log[i].id = feed.log[j].id
                      => feed.log[i].stage # feed.log[j].stage
  /\ \A i \in 1..Len(feed.log) :
        (feed.log[i].stage = "cycleRequest"
           /\ (i = Len(feed.log) \/ feed.log[i].id < feed.log[i + 1].id))
        => /\ i >= 6
           /\ [k \in 1..6 |-> feed.log[i - 6 + k]]
                = [k \in 1..6 |->
                     [id |-> feed.log[i].id,
                      stage |-> priceHandlerStages("cycle")[k]]]

\* two price events that each requested a cycle have been handled while a
\* third message was waiting
C24_Witness ==
  /\ Len(feed.inbox) = 1
  /\ \E i, j \in 1..Len(feed.log) :
        /\ feed.log[i].id = 1 /\ feed.log[i].stage = "cycleRequest"
        /\ feed.log[j].id = 2 /\ feed.log[j].stage = "cycleRequest"


\* C25: every unhandled runtime fault, an uncaught exception or an unhandled
\* promise rejection, starts the orderly shutdown, which sends cancel-all and
\* waits for its reply before the process exits.
C25_FaultShutsDown ==
  [][ev'.kind = "fault"
       => /\ proc'.state = "shutdown"
          /\ proc'.shutdowns = proc.shutdowns + 1]_vars


\* C26: no component holds a mutable reference into another's state: the
\* Position held by the QuotingEngine and the ActiveMarketContext held by the
\* ExecutionController are the values that were delivered to them, whatever
\* their owner has done since (fills, PnL refresh, strike lock).
C26_PayloadsAreValues ==
  /\ qAliased => quotingPosition = delivered.position
  /\ (market # 0 /\ market = current) => strikePrice = delivered.strike


\* C27: the fair-value function returns exactly 0.5 whenever spot, strike or
\* volatility is not positive, and otherwise a value within [0.01, 0.99] for
\* every time to expiry from 0 on; the same inputs give the same output.
C27_FairValueRange ==
  [][ev'.kind = "fairValue" =>
       LET a == ev'.args
       IN  /\ (a[1] <= 0 \/ a[2] <= 0 \/ a[3] <= 0) => ev'.value = R(Half)
           /\ (a[1] > 0 /\ a[2] > 0 /\ a[3] > 0)
                => /\ IsFinite(ev'.value)
                   /\ ~RLt(ev'.value, R(FV_MIN))
                   /\ ~RLt(R(FV_MAX), ev'.value)
           /\ (ev.kind = "fairValue" /\ ev.args = a) => ev'.value = ev.value
     ]_vars

\* spot at the strike with no time left: the floor keeps d finite
C27_Witness ==
  /\ ev.kind = "fairValue"
  /\ ev.args = <<2, 2, 80, 0>>
  /\ ev.value = R(Half)


\* C28: within one cycle the two signings and the cancel are started
\* together, and the submission is issued only after all three have
\* completed: no order of a cycle is submitted, and none is recorded, while
\* that cycle's cancel is outstanding.
C28_SubmitAfterCancel ==
  [][/\ \A c \in cycles' \ cycles :
          c.id = nCycles + 1
          => /\ ev'.request = "started"
             /\ ev'.signedToken = c.token
             /\ ev'.cancelMarket => c.stage = "cancel"
     /\ \A c \in cycles :
          (c.stage = "cancel" /\ c \notin cycles')
          => /\ cycles' = (cycles \ {c}) \cup {[c EXCEPT !.stage = "batch"]}
             /\ active' = active
             /\ cancelInFlight']_vars

\* the second cycle has its cancel answered and its submission outstanding,
\* with the first cycle's orders still recorded
C28_Witness ==
  \E c \in cycles :
    /\ c.id = 2
    /\ c.stage = "batch"
    /\ active.bidOrderId = BidIdOf(1)
    /\ active.askOrderId = AskIdOf(1)


\* C29: handleFill with the id of the recorded bid (resp. ask) sets that
\* side's remaining size to max(0, size - amount) and clears its id exactly
\* when the size reaches zero, leaving the other side unchanged; with any
\* other id ActiveOrderSet is unchanged.  Sizes are never negative.
C29_HandleFill ==
  [][(ev'.kind = "fill" /\ ev'.orderId # 0) =>
       LET o == ev'.orderId
           left(size) == IF size > ev'.size THEN size - ev'.size ELSE 0
       IN  /\ o = active.bidOrderId
                => active' = [active EXCEPT
                     !.bidSize = left(active.bidSize),
                     !.bidOrderId = IF left(active.bidSize) = 0 THEN 0
                                    ELSE active.bidOrderId]
           /\ (o # active.bidOrderId /\ o = active.askOrderId)
                => active' = [active EXCEPT
                     !.askSize = left(active.askSize),
                     !.askOrderId = IF left(active.askSize) = 0 THEN 0
                                    ELSE active.askOrderId]
           /\ (o # active.bidOrderId /\ o # active.askOrderId)
                => active' = active
           /\ active'.bidSize >= 0
           /\ active'.askSize >= 0]_vars

\* a fill of the bid for more than its remaining size: the size is zero and
\* the id cleared, the ask is still recorded
C29_Witness ==
  /\ ev.kind = "fill"
  /\ ev.orderId = BidIdOf(1)
  /\ ev.size = 20
  /\ active.bidOrderId = 0
  /\ active.bidSize = 0
  /\ active.askOrderId = AskIdOf(1)


\* C30: after any processFill that leaves realizedPnl + unrealizedPnl below
\* -MAX_LOSS, halted is set and a halt signal has been emitted, which issues
\* cancel-all, whether or not checkQuote is ever called afterwards.
C30_FillBreachHalts ==
  (ev.kind = "fill" /\ RLt(totalPnl(position), R(-config.MAX_LOSS)))
    => /\ halted
       /\ ev.haltEmitted
       /\ ev.cancelAlls = 1
       /\ cancelAllPending >= 1

\* a fill has breached the loss limit while the agent was not halted
C30_Witness ==
  /\ ev.kind = "fill"
  /\ ~ev.haltedBefore
  /\ ev.haltEmitted
  /\ RLt(totalPnl(position), R(-config.MAX_LOSS))
  /\ halted
  /\ cancelAllPending = 1


\* C31: while a feed component is alive, every disconnect of the reference
\* feed is followed by a reconnect attempt after 1 s, and every disconnect of
\* the public or the private order-book channel by a reconnect attempt of
\* that same channel after 2 s, independently per channel and for as long as
\* disconnects occur; after stop() no reconnect attempt is made.
C31_Reconnects ==
  /\ [][(ev'.kind = "close" /\ ev'.wasAlive)
          => \E t \in channels'.timers :
               /\ t \notin channels.timers
               /\ channels'.timers = channels.timers \cup {t}
               /\ t.chan = ev'.chan
               /\ t.delay = IF t.chan = "binance" THEN 1000 ELSE 2000]_vars
  /\ \A id \in 1..MaxChannelCloses :
       (\E t \in channels.timers : t.id = id)
         ~> ~(\E t \in channels.timers : t.id = id)
  /\ [][\A t \in channels.timers \ channels'.timers :
          \/ channels'.stopped
          \/ /\ ev'.kind = "reconnect" /\ ev'.chan = t.chan
             /\ \E s \in channels'.sockets :
                  /\ s \notin channels.sockets
                  /\ s.chan = t.chan /\ s.live]_vars
  /\ [][channels.stopped
          => /\ channels'.created = channels.created
             /\ \A s \in channels'.sockets :
                  \E r \in channels.sockets : r.id = s.id
             /\ channels'.timers = {}]_vars

\* the user channel was closed and its timer has reconnected it, with the
\* market channel's socket untouched
C31_Witness ==
  /\ ev.kind = "reconnect" /\ ev.chan = "user" /\ ev.wasAlive
  /\ \E s \in channels.sockets :
       s.id = channels.userWs /\ s.live /\ s.id = channels.created
  /\ \E s \in channels.sockets : s.id = channels.marketWs /\ s.live

\* C36: at any time there is at most one live connection per order-book
\* channel, so each fill delivered by the venue is emitted as a fill event
\* at most once, for every interleaving of channel close, pending reconnect
\* timers and switchMarket.
C36_OneConnectionPerChannel ==
  /\ \A chan \in {"market", "user"} :
       Cardinality({s \in channels.sockets : s.chan = chan /\ s.live}) <= 1
  /\ ev.kind = "fill" => ev.emitted <= 1

\* one side of a book
bookSide(book, side) == IF side = "BUY" THEN book.bids ELSE book.asks

bookOf(bk, asset) == IF asset = "yes" THEN bk.yes ELSE bk.no

\* no level of the side lies before its predecessor: bids by descending
\* price, asks by ascending price
Ordered(levels, side) ==
  \A i \in 1..(Len(levels) - 1) :
    IF side = "BUY" THEN levels[i].price >= levels[i + 1].price
    ELSE levels[i].price <= levels[i + 1].price

DistinctPrices(levels) ==
  \A i, j \in 1..Len(levels) : i # j => levels[i].price # levels[j].price

LevelSet(levels) == {levels[i] : i \in 1..Len(levels)}

\* C32: in both books the bids are ordered by descending price and the
\* asks by ascending price after any sequence of snapshots and changes; a
\* snapshot for a token replaces that token's book by the levels of the
\* message; a change of size zero removes the level of its price and does
\* nothing when there is none; a change of nonzero size sets the size of
\* the level of its price in place or adds the level; and a change never
\* leaves two levels of one price on a side that had none.
C32_BookMaintenance ==
  /\ [](\A asset \in {"yes", "no"}, side \in {"BUY", "SELL"} :
          Ordered(bookSide(bookOf(books, asset), side), side))
  /\ [][(ev'.kind = "book" /\ ev'.msg.asset_id \in {"yes", "no"})
          => LET b == bookOf(books', ev'.msg.asset_id)
             IN  /\ Len(b.bids) = Len(ev'.msg.bids)
                 /\ LevelSet(b.bids) = LevelSet(ev'.msg.bids)
                 /\ Len(b.asks) = Len(ev'.msg.asks)
                 /\ LevelSet(b.asks) = LevelSet(ev'.msg.asks)]_vars
  /\ [][ev'.kind = "price_change"
          => \A i \in 1..Len(ev'.msg.price_changes) :
               LET c == ev'.msg.price_changes[i]
                   old == bookSide(bookOf(books, c.asset_id), c.side)
                   new == bookSide(bookOf(books', c.asset_id), c.side)
               IN  c.asset_id \in {"yes", "no"}
                     => IF c.size = 0
                        THEN new = SelectSeq(old,
                                     LAMBDA l : l.price # c.price)
                        ELSE IF \E k \in 1..Len(old) :
                                  old[k].price = c.price
                        THEN /\ Len(new) = Len(old)
                             /\ \A k \in 1..Len(old) :
                                  new[k] = IF old[k].price = c.price
                                           THEN Level(c.price, c.size)
                                           ELSE old[k]
                        ELSE /\ Len(new) = Len(old) + 1
                             /\ LevelSet(new) = LevelSet(old)
                                  \cup {Level(c.price, c.size)}]_vars
  /\ [][ev'.kind = "price_change"
          => \A asset \in {"yes", "no"}, side \in {"BUY", "SELL"} :
               DistinctPrices(bookSide(bookOf(books, asset), side))
                 => DistinctPrices(bookSide(bookOf(books', asset), side))]_vars

\* a change inserted a third level between the two of a snapshot
C32_Witness ==
  /\ ev.kind = "price_change"
  /\ ev.msg.price_changes[1].asset_id = "yes"
  /\ ev.msg.price_changes[1].side = "BUY"
  /\ ev.msg.price_changes[1].price = 420
  /\ Len(books.yes.bids) = 3
  /\ Len(books.no.asks) = 2

\* C40: a snapshot for an asset id that is neither token leaves both books
\* as they are, and a price-change message leaves the yes book as it is
\* when none of its changes is for the yes token and the no book as it is
\* when none of its changes is for the no token.
C40_BooksIndependent ==
  [][/\ (ev'.kind = "book" /\ ev'.msg.asset_id = "other")
          => (books'.yes = books.yes /\ books'.no = books.no)
     /\ ev'.kind = "price_change"
          => LET changes == ev'.msg.price_changes
             IN  /\ (\A i \in 1..Len(changes) : changes[i].asset_id # "yes")
                      => books'.yes = books.yes
                 /\ (\A i \in 1..Len(changes) : changes[i].asset_id # "no")
                      => books'.no = books.no]_vars

\* a step sends an order submission: a cycle reaches the batch submission
\* or its fallback of single submissions
submissionSent ==
  \E c \in cycles' : c.stage \in {"batch", "single"} /\ c \notin cycles

holdsNoOrderId(act) == act.bidOrderId = 0 /\ act.askOrderId = 0

\* C33: no step taken while RiskGuard is halted sends an order submission,
\* and while it stays halted with every cancel-all answered, an
\* ActiveOrderSet without order ids stays without order ids.
C33_HaltStopsOrders ==
  /\ [][halted => ~submissionSent]_vars
  /\ [][(halted /\ halted' /\ cancelAllPending = 0
           /\ cancelAllPending' = 0 /\ holdsNoOrderId(active))
          => holdsNoOrderId(active')]_vars

\* a cancelAndReplace cycle completes in this step
cycleCompletes == \E c \in cycles : cycles' = cycles \ {c}

\* C34: when a cycle completes, the orders resting at the venue for the
\* active market are exactly the orders whose ids ActiveOrderSet holds: no
\* order rests untracked, and no pair rests next to the pair just placed.
C34_RestingOrdersTracked ==
  [][cycleCompletes
       => {o.id : o \in {r \in venue' : r.token = market'}}
            = orderIds(active')]_vars

\* the orders a submission carries: submitOrdersBatch and its fallback
\* send the bid and the ask of the cycle's quote (execution.ts lines
\* 198-200, 207-209)
submittedOrders(c) ==
  {[side |-> "BUY", size |-> c.quote.bidSize],
   [side |-> "SELL", size |-> c.quote.askSize]}

\* C35: every order of a submission has a size above zero, and a completed
\* cycle records no order id for a side whose size is zero.
C35_PositiveSizes ==
  /\ [][\A c \in cycles' :
          (c.stage \in {"batch", "single"} /\ c \notin cycles)
            => \A o \in submittedOrders(c) : o.size > 0]_vars
  /\ [][cycleCompletes
          => /\ active'.bidSize = 0 => active'.bidOrderId = 0
             /\ active'.askSize = 0 => active'.askOrderId = 0]_vars

\* C37: after any sequence of fills the average entry price and the
\* realized PnL of the Position are finite numbers (no division by zero
\* shares has produced an infinity or NaN).
C37_PositionWellDefined ==
  /\ IsFinite(position.avgEntryPrice)
  /\ IsFinite(position.realizedPnl)

\* the unrealized PnL of the position at the fair value fv
unrealizedAt(pos, fv) ==
  RMul(RSub(R(fv), pos.avgEntryPrice), R(pos.yesShares))

\* C38: when a price event has had its quote checked, unrealizedPnl is the
\* position's PnL at the fair value of that quote, and if the realized PnL
\* plus the PnL at that fair value is below -MAX_LOSS the decision of the
\* check is HALT.
C38_FreshUnrealizedPnl ==
  (ev.kind = "price" /\ ev.quoted)
    => /\ position.unrealizedPnl = unrealizedAt(position, lastQuote.fairValue)
       /\ RLt(RAdd(position.realizedPnl,
                   unrealizedAt(position, lastQuote.fairValue)),
              R(-MAX_LOSS))
            => ev.decision = "HALT"

\* C39: with the default skew factor, MAX_POSITION and a tick size of
\* 0.001 or 0.01, computeQuote returns a quote for every fair value
\* strictly between 0 and 1 while |netDelta| exceeds MAX_POSITION.
C39_QuoteUnderSkew ==
  (/\ ev.kind = "quote"
   /\ ev.fairValue > 0 /\ ev.fairValue < ONE
   /\ tickSize \in {1, 10}
   /\ Abs(quotingPosition.netDelta) > MAX_POSITION)
    => ev.quoted

=============================================================================
